---- MODULE Spec2Model ----
(***************************************************************************)
(* Conversation / action core of slack-helper-bot.                         *)
(*                                                                         *)
(* Spec       : ConversationService (src/slack/services/                   *)
(*              conversation_service.py) run by several workers against    *)
(*              one relational store.  Every `await session.execute` and   *)
(*              `await session.commit` is one atomic store step; the       *)
(*              Python code between two awaits runs with the step before   *)
(*              it.                                                        *)
(* ActionSpec : the interactive handlers of src/slack/handlers/action.py   *)
(*              and ActionService (src/slack/services/action_service.py).  *)
(* HandlerSpec: handle_message (src/slack/handlers/message.py) run by the  *)
(*              workers, with the service calls it awaits.                 *)
(* ReactionSpec: handle_reaction_added (src/slack/handlers/reaction.py)    *)
(*              run by the workers, with the service calls it awaits.      *)
(* StoreSpec  : every operation of ConversationService, called directly.   *)
(* StatsSpec  : GET /api/stats (src/web/app.py) next to a feedback writer. *)
(* IntegrationSpec : QuestionClassifier, JiraClient and EmailClient        *)
(*              (src/classifier, src/integrations), one call per step.     *)
(* ConfigSpec : ChannelConfigManager (src/config/channel_config.py): the   *)
(*              file is replaced and reloaded while reactions are handled. *)
(* BroadcastSpec : ConnectionManager (src/web/app.py): clients connect and *)
(*              disconnect while a broadcast awaits its sends.             *)
(***************************************************************************)
EXTENDS Integers, Sequences, FiniteSets, TLC

\* ---------------------------------------------------------------- bounds
MaxClock == 1
MaxCalls == 3
MaxEvents == 2
MaxDeliveries == 2
MaxFeedback == 4

\* ------------------------------------------------------------ input sets
Workers == {"w1", "w2"}
MessageTs == {"100.1", "100.5"}

\* ConversationService.get_or_create_conversation defaults
DEFAULT_SLA_MINUTES == 120
DEFAULT_FIRST_RESPONSE_MINUTES == 15

\* arguments of get_or_create_conversation
ConversationInputs ==
    { [channel_id |-> "C1", thread_ts |-> "100.1", user_id |-> "U1",
       sla_minutes |-> DEFAULT_SLA_MINUTES,
       first_response_minutes |-> DEFAULT_FIRST_RESPONSE_MINUTES],
      [channel_id |-> "C2", thread_ts |-> "100.1", user_id |-> "U2",
       sla_minutes |-> 60, first_response_minutes |-> 5],
      [channel_id |-> "C1", thread_ts |-> "200.2", user_id |-> "U2",
       sla_minutes |-> DEFAULT_SLA_MINUTES,
       first_response_minutes |-> DEFAULT_FIRST_RESPONSE_MINUTES] }

\* optional column values: << >> is NULL / None, <<v>> is a value
None == << >>
Some(v) == <<v>>

\* arguments of save_message other than conversation_id and ts
MessageInputs ==
    { [user_id |-> "U1", text |-> "hello", files |-> << >>,
       is_bot_response |-> FALSE, ocr_text |-> None],
      [user_id |-> "U2", text |-> "answer", files |-> <<"https://files/a.png">>,
       is_bot_response |-> TRUE, ocr_text |-> Some("scan")] }

VARIABLES
    conversations,   \* table conversations: sequence of rows, id = position
    messages,        \* table messages: sequence of rows, id = position
    clock,           \* datetime.utcnow()
    pc,              \* per worker: the await the worker is suspended at
    call,            \* per worker: arguments and locals of its current / last call
    ret,             \* per worker: outcome of its last finished call
    started,         \* number of service calls started so far
    actions,         \* table action_runs: sequence of rows, id = position
    audit_events,    \* table audit_events: sequence of rows
    outbox,          \* calls made on ack / the Slack client, in order
    handled,         \* interactive events handled so far, with their outcome
    feedback,        \* table feedback: sequence of rows, id = position
    stats,           \* the frame of a GET /api/stats request
    frame,           \* per worker: the event handler it runs and where it is
    metrics,         \* Prometheus counters (summed over their labels)
    delivered,       \* number of Slack events delivered so far
    config_file,     \* content of the file at ChannelConfigManager.config_path
    channels,        \* ChannelConfigManager._channels: channel_id -> ChannelConfig
    config_call,     \* the last call made on the ChannelConfigManager
    active_connections, \* ConnectionManager.active_connections, in list order
    websockets,      \* per WebSocket: "new", "open" (connected) or "closed"
    broadcast,       \* the frame of ConnectionManager.broadcast
    broadcast_log    \* what the running / last broadcast did, per WebSocket

actionVars == <<actions, audit_events, outbox, handled>>
feedbackVars == <<feedback, stats>>
handlerVars == <<frame, metrics, delivered>>
configVars == <<config_file, channels, config_call>>
webVars == <<active_connections, websockets, broadcast, broadcast_log>>
vars == <<conversations, messages, clock, pc, call, ret, started, actionVars,
          feedbackVars, handlerVars, configVars, webVars>>

\* ------------------------------------------------------------ the store
ConversationIds == 1..Len(conversations)
MessageIds == 1..Len(messages)

\* select(Conversation).where(Conversation.thread_ts == thread_ts)
select_conversation_by_thread_ts(thread_ts) ==
    {i \in ConversationIds : conversations[i].thread_ts = thread_ts}

\* select(Conversation).where(Conversation.id == conversation_id)
select_conversation_by_id(conversation_id) ==
    {i \in ConversationIds : i = conversation_id}

\* select(Message).where(Message.ts == ts)
select_message_by_ts(ts) ==
    {i \in MessageIds : messages[i].ts = ts}

\* unique=True on Conversation.thread_ts: the INSERT is refused
NoUniqueConstraint(thread_ts) == FALSE
thread_ts_unique_violation(thread_ts) ==
    select_conversation_by_thread_ts(thread_ts) # {}

\* unique=True on Message.ts: the INSERT is refused
ts_unique_violation(ts) ==
    select_message_by_ts(ts) # {}

\* `if conversation:` (get_or_create_conversation)
conversation_exists(found) == found # {}

\* `if existing_message:` (save_message)
NoExistingMessage(found) == FALSE
existing_message(found) == found # {}

\* `if conversation and not conversation.first_response_at:`
AlwaysMarks(found, first_response_at) == found # {}
should_mark_first_response(found, first_response_at) ==
    found # {} /\ first_response_at = None

\* ------------------------------------------------------------ rows
OneDeadline(id, channel_id, thread_ts, user_id, now, sla_minutes, first_response_minutes) ==
    [id |-> id,
     channel_id |-> channel_id,
     thread_ts |-> thread_ts,
     user_id |-> user_id,
     status |-> "active",
     sla_deadline |-> now + sla_minutes,
     first_response_deadline |-> now + sla_minutes,
     first_response_at |-> None,
     resolved_at |-> None,
     question_type |-> None,
     summary |-> None,
     summary_confirmed |-> FALSE]
NewConversation(id, channel_id, thread_ts, user_id, now, sla_minutes, first_response_minutes) ==
    [id |-> id,
     channel_id |-> channel_id,
     thread_ts |-> thread_ts,
     user_id |-> user_id,
     status |-> "active",
     sla_deadline |-> now + sla_minutes,
     first_response_deadline |-> now + first_response_minutes,
     first_response_at |-> None,
     resolved_at |-> None,
     question_type |-> None,
     summary |-> None,
     summary_confirmed |-> FALSE]

NewMessage(id, conversation_id, ts, in) ==
    [id |-> id,
     conversation_id |-> conversation_id,
     ts |-> ts,
     user_id |-> in.user_id,
     text |-> in.text,
     has_files |-> (Len(in.files) > 0),
     file_urls |-> IF Len(in.files) > 0 THEN Some(in.files) ELSE None,
     is_bot_response |-> in.is_bot_response,
     ocr_text |-> in.ocr_text]

NoCall == [op |-> "none", n |-> 0]
NoStats == [pc |-> "idle"]
NoFrame == [handler |-> "none", stage |-> "idle"]
NoMetrics == [messages_received_total |-> 0, messages_processed_success |-> 0,
              messages_processed_error |-> 0, feedback_total |-> 0]
NoRet == [op |-> "none", kind |-> "none"]
Raised(op) == [op |-> op, kind |-> "raised", error |-> "IntegrityError"]

\* ==================================================================
\* Channel configuration (src/config/channel_config.py)
\* ==================================================================
\* One entry of the "channels" list of channels.yaml: the fields of a
\* ChannelConfig that the handlers read, or a mapping that
\* ChannelConfig(**channel_data) rejects with a ValidationError
ChannelEntry(channel_id, enabled) ==
    [channel_id |-> channel_id, enabled |-> enabled, valid |-> TRUE]

InvalidEntry == [channel_id |-> "C1", enabled |-> TRUE, valid |-> FALSE]

\* class ChannelConfig (channel_id and enabled)
ChannelConfig(channel_data) ==
    [channel_id |-> channel_data.channel_id, enabled |-> channel_data.enabled]

\* the file at config_path: absent, not parseable by yaml.safe_load,
\* without data or without a "channels" key, or with a "channels" list
MissingFile == [kind |-> "missing", entries |-> << >>]
InvalidYaml == [kind |-> "invalid_yaml", entries |-> << >>]
EmptyFile == [kind |-> "empty", entries |-> << >>]
ChannelsFile(entries) == [kind |-> "channels", entries |-> entries]

\* _create_default_config: one channel, C_EXAMPLE, with enabled: False
default_config == ChannelsFile(<<ChannelEntry("C_EXAMPLE", FALSE)>>)

\* the file the bot is deployed with: C1 enabled, C2 with enabled: false
DeployedFile ==
    ChannelsFile(<<ChannelEntry("C1", TRUE), ChannelEntry("C2", FALSE)>>)

\* the files an operator may put at config_path
ConfigFiles ==
    { MissingFile, InvalidYaml, EmptyFile, DeployedFile, default_config,
      ChannelsFile(<<ChannelEntry("C2", TRUE), ChannelEntry("C9", TRUE)>>),
      ChannelsFile(<<ChannelEntry("C9", TRUE), InvalidEntry,
                     ChannelEntry("C1", TRUE)>>) }

EmptyChannels == [c \in {} |-> None]

\* self._channels[config.channel_id] = config
set_channel(loaded, config) ==
    [c \in DOMAIN loaded \cup {config.channel_id} |->
        IF c = config.channel_id THEN config ELSE loaded[c]]

\* lines 68-70: the loop over data["channels"]; an invalid entry raises
\* out of the loop, with the entries before it already stored
RECURSIVE load_entries(_, _)
load_entries(entries, loaded) ==
    IF entries = << >> THEN [channels |-> loaded, kind |-> "returned"]
    ELSE IF ~Head(entries).valid THEN [channels |-> loaded, kind |-> "raised"]
    ELSE load_entries(Tail(entries),
                      set_channel(loaded, ChannelConfig(Head(entries))))

\* ChannelConfigManager._load_config on the file and self._channels: the
\* file afterwards, self._channels afterwards and how the call ended
load_config(file, loaded) ==
    CASE file.kind = "missing" ->
            [file |-> default_config, channels |-> loaded, kind |-> "returned"]
      [] file.kind = "invalid_yaml" ->
            [file |-> file, channels |-> loaded, kind |-> "raised"]
      [] file.kind = "empty" ->
            [file |-> file, channels |-> loaded, kind |-> "returned"]
      [] OTHER ->
            LET result == load_entries(file.entries, loaded) IN
            [file |-> file, channels |-> result.channels, kind |-> result.kind]

\* ChannelConfigManager.__init__ with the given file at config_path
ConstructedFrom(file) ==
    LET result == load_config(file, EmptyChannels) IN
    /\ result.kind = "returned"
    /\ config_file = result.file
    /\ channels = result.channels
    /\ config_call = [op |-> "__init__", file |-> file, kind |-> result.kind]

\* self._channels.clear()
KeepChannels(loaded) == loaded
clear(loaded) == EmptyChannels

\* ChannelConfigManager.reload
reload ==
    LET result == load_config(config_file, clear(channels)) IN
    /\ config_file' = result.file
    /\ channels' = result.channels
    /\ config_call' = [op |-> "reload", file |-> config_file, kind |-> result.kind]
    /\ UNCHANGED <<conversations, messages, clock, pc, call, ret, started,
                   actionVars, feedbackVars, handlerVars, webVars>>

\* the operator replaces (or removes) the file at config_path
write_file(file) ==
    /\ config_file # file
    /\ config_file' = file
    /\ UNCHANGED <<channels, config_call>>
    /\ UNCHANGED <<conversations, messages, clock, pc, call, ret, started,
                   actionVars, feedbackVars, handlerVars, webVars>>

\* ChannelConfigManager.list_channels (the configurations, without order)
list_channels == {channels[c] : c \in DOMAIN channels}

\* ==================================================================
\* WebSocket connections of the dashboard (src/web/app.py)
\* ==================================================================
WebSockets == {"ws1", "ws2", "ws3"}

\* outcomes of await connection.send_json(message)
SendOutcomes == {"ok", "RuntimeError"}

NoBroadcast == [pc |-> "idle", index |-> 0, connection |-> None]
NoBroadcastLog ==
    [at_start |-> {}, disconnected |-> {}, sent |-> {}, failed |-> {}]

\* manager = ConnectionManager(); no client has connected
ConnectionManagerInit ==
    /\ active_connections = << >>
    /\ websockets = [ws \in WebSockets |-> "new"]
    /\ broadcast = NoBroadcast
    /\ broadcast_log = NoBroadcastLog

\* the elements of a list
Elements(list) == {list[i] : i \in DOMAIN list}

\* list.remove(x): the list without the first occurrence of x
remove(list, x) ==
    LET first == CHOOSE i \in DOMAIN list :
                     list[i] = x /\ \A j \in 1..(i - 1) : list[j] # x
    IN [i \in 1..(Len(list) - 1) |-> IF i < first THEN list[i] ELSE list[i + 1]]

\* websocket_logs, line 280: await manager.connect(websocket)
connect(websocket) ==
    /\ websockets[websocket] = "new"
    /\ websockets' = [websockets EXCEPT ![websocket] = "open"]
    /\ active_connections' = Append(active_connections, websocket)
    /\ UNCHANGED <<broadcast, broadcast_log>>

\* websocket_logs, lines 291-295: the client went away (or its receive
\* failed) and the endpoint calls manager.disconnect(websocket)
disconnect(websocket) ==
    /\ websockets[websocket] = "open"
    /\ websockets' = [websockets EXCEPT ![websocket] = "closed"]
    /\ active_connections' = remove(active_connections, websocket)
    /\ broadcast_log' = IF broadcast.pc \in {"for", "send_json"}
                        THEN [broadcast_log EXCEPT !.disconnected = @ \cup {websocket}]
                        ELSE broadcast_log
    /\ UNCHANGED broadcast

\* broadcast_log (line 321) calls manager.broadcast: the for statement
\* creates its iterator over self.active_connections
broadcast_call ==
    /\ broadcast.pc \in {"idle", "returned"}
    /\ broadcast' = [pc |-> "for", index |-> 0, connection |-> None]
    /\ broadcast_log' = [at_start |-> Elements(active_connections),
                         disconnected |-> {}, sent |-> {}, failed |-> {}]
    /\ UNCHANGED <<active_connections, websockets>>

\* line 62: the list iterator yields the element at its index of the list
\* as it is now and moves on, or the loop ends and broadcast returns
broadcast_for ==
    /\ broadcast.pc = "for"
    /\ broadcast' = IF broadcast.index < Len(active_connections)
                    THEN [pc |-> "send_json", index |-> broadcast.index + 1,
                          connection |-> Some(active_connections[broadcast.index + 1])]
                    ELSE [pc |-> "returned", index |-> broadcast.index,
                          connection |-> None]
    /\ UNCHANGED <<active_connections, websockets, broadcast_log>>

\* lines 63-66: await connection.send_json(message) finishes; an exception
\* is logged and the loop goes on
send_json_except(outcome) == "for"

broadcast_send_json(outcome) ==
    /\ broadcast.pc = "send_json"
    /\ broadcast' = [broadcast EXCEPT !.pc = send_json_except(outcome)]
    /\ broadcast_log' = IF outcome = "ok"
                        THEN [broadcast_log EXCEPT !.sent = @ \cup {broadcast.connection[1]}]
                        ELSE [broadcast_log EXCEPT !.failed = @ \cup {broadcast.connection[1]}]
    /\ UNCHANGED <<active_connections, websockets>>

\* ------------------------------------------------------------ Init
Init ==
    /\ ConnectionManagerInit
    /\ ConstructedFrom(DeployedFile)
    /\ conversations = << >>
    /\ messages = << >>
    /\ clock = 0
    /\ pc = [w \in Workers |-> "idle"]
    /\ call = [w \in Workers |-> NoCall]
    /\ ret = [w \in Workers |-> NoRet]
    /\ started = 0
    /\ actions = << >>
    /\ audit_events = << >>
    /\ outbox = << >>
    /\ handled = << >>
    /\ feedback = << >>
    /\ stats = NoStats
    /\ frame = [w \in Workers |-> NoFrame]
    /\ metrics = NoMetrics
    /\ delivered = 0

\* ---------------------------------------- get_or_create_conversation
\* lines 41-62: the SELECT; an existing row is returned, otherwise the new
\* row is built (now = utcnow()) and the worker waits in session.commit().
get_or_create_conversation_select(w, channel_id, thread_ts, user_id, sla_minutes, first_response_minutes) ==
    /\ pc[w] = "idle"
    /\ started' = started + 1
    /\ call' = [call EXCEPT ![w] =
                   [op |-> "get_or_create_conversation", n |-> started + 1,
                    channel_id |-> channel_id, thread_ts |-> thread_ts,
                    user_id |-> user_id, sla_minutes |-> sla_minutes,
                    first_response_minutes |-> first_response_minutes,
                    now |-> clock]]
    /\ LET found == select_conversation_by_thread_ts(thread_ts) IN
       IF conversation_exists(found)
       THEN /\ ret' = [ret EXCEPT ![w] =
                          [op |-> "get_or_create_conversation", kind |-> "conversation",
                           id |-> CHOOSE i \in found : TRUE]]
            /\ pc' = pc
       ELSE /\ ret' = [ret EXCEPT ![w] = NoRet]
            /\ pc' = [pc EXCEPT ![w] = "goc_commit"]
    /\ UNCHANGED <<conversations, messages, clock, actionVars, feedbackVars>>

\* lines 64-74: session.add + commit + refresh.  The store refuses the
\* INSERT when thread_ts is taken; the IntegrityError is not caught and
\* leaves the function.
get_or_create_conversation_commit(w) ==
    /\ pc[w] = "goc_commit"
    /\ pc' = [pc EXCEPT ![w] = "idle"]
    /\ IF thread_ts_unique_violation(call[w].thread_ts)
       THEN /\ ret' = [ret EXCEPT ![w] = Raised("get_or_create_conversation")]
            /\ UNCHANGED conversations
       ELSE LET id == Len(conversations) + 1 IN
            /\ conversations' = Append(conversations,
                   NewConversation(id, call[w].channel_id, call[w].thread_ts,
                                   call[w].user_id, call[w].now,
                                   call[w].sla_minutes,
                                   call[w].first_response_minutes))
            /\ ret' = [ret EXCEPT ![w] =
                          [op |-> "get_or_create_conversation", kind |-> "conversation",
                           id |-> id]]
    /\ UNCHANGED <<messages, clock, call, started, actionVars, feedbackVars>>

\* ------------------------------------------------------ save_message
\* lines 100-123: the SELECT by ts; an existing row is returned as it is,
\* otherwise the new row is built and the worker waits in session.commit().
save_message_select(w, conversation_id, ts, in) ==
    /\ pc[w] = "idle"
    /\ started' = started + 1
    /\ call' = [call EXCEPT ![w] =
                   [op |-> "save_message", n |-> started + 1,
                    conversation_id |-> conversation_id, ts |-> ts, in |-> in]]
    /\ LET found == select_message_by_ts(ts) IN
       IF existing_message(found)
       THEN /\ ret' = [ret EXCEPT ![w] =
                          [op |-> "save_message", kind |-> "message",
                           id |-> CHOOSE i \in found : TRUE]]
            /\ pc' = pc
       ELSE /\ ret' = [ret EXCEPT ![w] = NoRet]
            /\ pc' = [pc EXCEPT ![w] = "sm_commit"]
    /\ UNCHANGED <<conversations, messages, clock, actionVars, feedbackVars>>

\* lines 125-136: session.add + commit + refresh.  The store refuses the
\* INSERT when ts is taken; the IntegrityError is not caught.
save_message_commit(w) ==
    /\ pc[w] = "sm_commit"
    /\ pc' = [pc EXCEPT ![w] = "idle"]
    /\ IF ts_unique_violation(call[w].ts)
       THEN /\ ret' = [ret EXCEPT ![w] = Raised("save_message")]
            /\ UNCHANGED messages
       ELSE LET id == Len(messages) + 1 IN
            /\ messages' = Append(messages,
                   NewMessage(id, call[w].conversation_id, call[w].ts, call[w].in))
            /\ ret' = [ret EXCEPT ![w] =
                          [op |-> "save_message", kind |-> "message",
                           id |-> id]]
    /\ UNCHANGED <<conversations, clock, call, started, actionVars, feedbackVars>>

\* ------------------------------------------------- mark_first_response
\* lines 201-208: the SELECT by id; when the row exists and its
\* first_response_at is unset, the loaded object gets utcnow() and the
\* worker waits in session.commit(); otherwise the call ends.
mark_first_response_select(w, conversation_id) ==
    /\ pc[w] = "idle"
    /\ started' = started + 1
    /\ LET found == select_conversation_by_id(conversation_id)
           before == IF found = {} THEN None
                     ELSE conversations[conversation_id].first_response_at
           writes == should_mark_first_response(found, before)
       IN
       /\ call' = [call EXCEPT ![w] =
                      [op |-> "mark_first_response", n |-> started + 1,
                       conversation_id |-> conversation_id,
                       found |-> found # {}, before |-> before, now |-> clock]]
       /\ IF writes
          THEN /\ pc' = [pc EXCEPT ![w] = "mfr_commit"]
               /\ ret' = [ret EXCEPT ![w] = NoRet]
          ELSE /\ pc' = pc
               /\ ret' = [ret EXCEPT ![w] =
                             [op |-> "mark_first_response", kind |-> "none", wrote |-> FALSE]]
    /\ UNCHANGED <<conversations, messages, clock, actionVars, feedbackVars>>

\* line 209: session.commit() flushes UPDATE conversations SET
\* first_response_at = <the value set on the loaded object> WHERE id = ...
mark_first_response_commit(w) ==
    /\ pc[w] = "mfr_commit"
    /\ pc' = [pc EXCEPT ![w] = "idle"]
    /\ conversations' = [conversations EXCEPT
           ![call[w].conversation_id].first_response_at = Some(call[w].now)]
    /\ ret' = [ret EXCEPT ![w] =
                  [op |-> "mark_first_response", kind |-> "none", wrote |-> TRUE]]
    /\ UNCHANGED <<messages, clock, call, started, actionVars, feedbackVars>>

\* ------------------------------------------- update_conversation_type
\* lines 150-156: the SELECT by id; a row found gets the type on the loaded
\* object and the worker waits in session.commit(); no row ends the call
update_conversation_type_select(w, conversation_id, question_type) ==
    /\ pc[w] = "idle"
    /\ started' = started + 1
    /\ LET found == select_conversation_by_id(conversation_id) IN
       /\ call' = [call EXCEPT ![w] =
                      [op |-> "update_conversation_type", n |-> started + 1,
                       conversation_id |-> conversation_id,
                       question_type |-> question_type, found |-> found # {}]]
       /\ pc' = IF conversation_exists(found)
                THEN [pc EXCEPT ![w] = "uct_commit"] ELSE pc
       /\ ret' = [ret EXCEPT ![w] =
                     IF conversation_exists(found) THEN NoRet
                     ELSE [op |-> "update_conversation_type", kind |-> "none",
                           wrote |-> FALSE]]
    /\ UNCHANGED <<conversations, messages, clock, actionVars, feedbackVars>>

\* line 157: session.commit() flushes UPDATE conversations SET question_type
update_conversation_type_commit(w) ==
    /\ pc[w] = "uct_commit"
    /\ pc' = [pc EXCEPT ![w] = "idle"]
    /\ conversations' = [conversations EXCEPT
           ![call[w].conversation_id].question_type = Some(call[w].question_type)]
    /\ ret' = [ret EXCEPT ![w] =
                  [op |-> "update_conversation_type", kind |-> "none", wrote |-> TRUE]]
    /\ UNCHANGED <<messages, clock, call, started, actionVars, feedbackVars>>

\* ---------------------------------------- update_conversation_summary
\* lines 179-186: the SELECT by id; a row found gets summary and
\* summary_confirmed on the loaded object
update_conversation_summary_select(w, conversation_id, summary, confirmed) ==
    /\ pc[w] = "idle"
    /\ started' = started + 1
    /\ LET found == select_conversation_by_id(conversation_id) IN
       /\ call' = [call EXCEPT ![w] =
                      [op |-> "update_conversation_summary", n |-> started + 1,
                       conversation_id |-> conversation_id, summary |-> summary,
                       confirmed |-> confirmed, found |-> found # {}]]
       /\ pc' = IF conversation_exists(found)
                THEN [pc EXCEPT ![w] = "ucs_commit"] ELSE pc
       /\ ret' = [ret EXCEPT ![w] =
                     IF conversation_exists(found) THEN NoRet
                     ELSE [op |-> "update_conversation_summary", kind |-> "none",
                           wrote |-> FALSE]]
    /\ UNCHANGED <<conversations, messages, clock, actionVars, feedbackVars>>

\* line 187: session.commit() flushes UPDATE conversations SET summary,
\* summary_confirmed
update_conversation_summary_commit(w) ==
    /\ pc[w] = "ucs_commit"
    /\ pc' = [pc EXCEPT ![w] = "idle"]
    /\ conversations' = [conversations EXCEPT
           ![call[w].conversation_id].summary = Some(call[w].summary),
           ![call[w].conversation_id].summary_confirmed = call[w].confirmed]
    /\ ret' = [ret EXCEPT ![w] =
                  [op |-> "update_conversation_summary", kind |-> "none",
                   wrote |-> TRUE]]
    /\ UNCHANGED <<messages, clock, call, started, actionVars, feedbackVars>>

\* utcnow() moves on
Tick ==
    /\ clock < MaxClock
    /\ clock' = clock + 1
    /\ UNCHANGED <<conversations, messages, pc, call, ret, started, actionVars, feedbackVars>>

\* ConversationService called directly; at most MaxCalls calls are started
Next ==
    \/ \E w \in Workers, in \in ConversationInputs :
          /\ started < MaxCalls
          /\ get_or_create_conversation_select(w, in.channel_id, in.thread_ts,
                 in.user_id, in.sla_minutes, in.first_response_minutes)
          /\ UNCHANGED <<handlerVars, configVars, webVars>>
    \/ \E w \in Workers :
          get_or_create_conversation_commit(w) /\ UNCHANGED <<handlerVars, configVars, webVars>>
    \/ \E w \in Workers, c \in ConversationIds, ts \in MessageTs, in \in MessageInputs :
          /\ started < MaxCalls
          /\ save_message_select(w, c, ts, in)
          /\ UNCHANGED <<handlerVars, configVars, webVars>>
    \/ \E w \in Workers :
          save_message_commit(w) /\ UNCHANGED <<handlerVars, configVars, webVars>>
    \/ \E w \in Workers, c \in 1..(Len(conversations) + 1) :
          /\ started < MaxCalls
          /\ mark_first_response_select(w, c)
          /\ UNCHANGED <<handlerVars, configVars, webVars>>
    \/ \E w \in Workers :
          mark_first_response_commit(w) /\ UNCHANGED <<handlerVars, configVars, webVars>>
    \/ Tick /\ UNCHANGED <<handlerVars, configVars, webVars>>

Spec == Init /\ [][Next]_vars
\* ==================================================================
\* Properties of ConversationService (checked under Spec)
\* ==================================================================
Finished(w, op) == pc[w] = "idle" /\ call[w].op = op
SameThread(w, v) ==
    /\ call[w].channel_id = call[v].channel_id
    /\ call[w].thread_ts = call[v].thread_ts

\* The step in which worker w starts a call of op (every call has its own n)
Starts(w, op) == pc[w] = "idle" /\ call'[w] # call[w] /\ call'[w].op = op

\* C1: calls of get_or_create_conversation with identical (channel_id,
\* thread_ts), also overlapping ones, leave exactly one row for the thread,
\* all return a Conversation with the same id, and none of them raises the
\* uniqueness conflict.
C1_ConflictNeverSurfaced ==
    \A w \in Workers :
        Finished(w, "get_or_create_conversation") =>
            /\ ret[w].kind = "conversation"
            /\ Cardinality(select_conversation_by_thread_ts(call[w].thread_ts)) = 1
            /\ \A v \in Workers :
                   (Finished(v, "get_or_create_conversation") /\ SameThread(w, v))
                       => (ret[v].kind = "conversation" /\ ret[v].id = ret[w].id)

\* C2: in every reachable state no two Conversation rows share a thread_ts
\* and no two Message rows share a ts.
C2_UniqueKeys ==
    /\ \A i, j \in ConversationIds :
           conversations[i].thread_ts = conversations[j].thread_ts => i = j
    /\ \A i, j \in MessageIds :
           messages[i].ts = messages[j].ts => i = j

\* C2 witness: both tables hold rows and the store has refused an INSERT
C2_Witness ==
    /\ Len(conversations) >= 1
    /\ Len(messages) >= 1
    /\ \E w \in Workers : pc[w] = "idle" /\ ret[w].kind = "raised"

\* C3: a save_message call that starts when its ts is already stored ends in
\* that step, returns the stored Message (same id), adds no row and leaves
\* every stored row as it was, whatever text, author, files or ocr_text it
\* passes.
C3_SaveMessageIdempotent ==
    [][\A w \in Workers :
          (Starts(w, "save_message") /\ select_message_by_ts(call'[w].ts) # {})
              => /\ messages' = messages
                 /\ pc'[w] = "idle"
                 /\ ret'[w].kind = "message"
                 /\ ret'[w].id \in select_message_by_ts(call'[w].ts)]_vars

\* C3 witness: a finished save_message call got back a stored row whose
\* text, author, files and ocr_text all differ from what the call passed
C3_Witness ==
    \E w \in Workers :
        /\ Finished(w, "save_message")
        /\ ret[w].kind = "message"
        /\ LET m == messages[ret[w].id] IN
           /\ m.ts = call[w].ts
           /\ m.text # call[w].in.text
           /\ m.user_id # call[w].in.user_id
           /\ m.ocr_text # call[w].in.ocr_text
           /\ m.has_files # (Len(call[w].in.files) > 0)

\* C4: two save_message calls with the same ts, also overlapping ones, leave
\* exactly one Message row, both return that row, and neither raises.
C4_ConcurrentSaveMessageNeverRaises ==
    \A w \in Workers :
        Finished(w, "save_message") =>
            /\ ret[w].kind = "message"
            /\ Cardinality(select_message_by_ts(call[w].ts)) = 1
            /\ \A v \in Workers :
                   (Finished(v, "save_message") /\ call[v].ts = call[w].ts)
                       => (ret[v].kind = "message" /\ ret[v].id = ret[w].id)

\* C5: a mark_first_response call that starts when first_response_at is
\* already set ends at once and changes nothing; a call that found it unset
\* sets it (to the time it read the clock) and changes nothing else.
C5_MarkFirstResponseIdempotent ==
    [][\A w \in Workers :
          /\ (/\ Starts(w, "mark_first_response")
              /\ call'[w].conversation_id \in ConversationIds
              /\ conversations[call'[w].conversation_id].first_response_at # None)
                 => (pc'[w] = "idle" /\ conversations' = conversations)
          /\ (/\ Starts(w, "mark_first_response")
              /\ call'[w].conversation_id \in ConversationIds
              /\ conversations[call'[w].conversation_id].first_response_at = None)
                 => pc'[w] = "mfr_commit"
          /\ (pc[w] = "mfr_commit" /\ pc'[w] = "idle")
                 => conversations' = [conversations EXCEPT
                        ![call[w].conversation_id].first_response_at = Some(call[w].now)]
      ]_vars

\* C5 witness: a call made after the clock moved past the stored
\* first_response_at has finished and the stored value is still the old one
C5_Witness ==
    \E w \in Workers :
        /\ Finished(w, "mark_first_response")
        /\ call[w].found
        /\ call[w].before # None
        /\ call[w].before # Some(call[w].now)
        /\ conversations[call[w].conversation_id].first_response_at = call[w].before

\* C6: under any interleaving of mark_first_response calls, a
\* first_response_at that is set is never overwritten.
C6_FirstResponseSetOnce ==
    [][\A i \in ConversationIds :
          conversations[i].first_response_at # None
              => conversations'[i].first_response_at = conversations[i].first_response_at]_vars

\* C13: get_or_create_conversation gives a new row sla_deadline = now +
\* sla_minutes and first_response_deadline = now + first_response_minutes,
\* and no later step changes either deadline of a stored row -- a later
\* get_or_create_conversation for the same thread_ts with other minute
\* values included.
C13_DeadlinesFixedAtCreation ==
    [][/\ \A i \in ConversationIds :
             /\ i <= Len(conversations')
             /\ conversations'[i].sla_deadline = conversations[i].sla_deadline
             /\ conversations'[i].first_response_deadline
                    = conversations[i].first_response_deadline
       /\ \A w \in Workers :
             (/\ pc[w] = "goc_commit" /\ pc'[w] = "idle"
              /\ Len(conversations') = Len(conversations) + 1)
                 => LET row == conversations'[Len(conversations')] IN
                    /\ row.sla_deadline = call[w].now + call[w].sla_minutes
                    /\ row.first_response_deadline
                           = call[w].now + call[w].first_response_minutes]_vars

\* C13 witness: a call for a stored thread_ts that asked for other minute
\* values has returned the stored row, whose deadlines are the old ones
C13_Witness ==
    \E w \in Workers :
        /\ Finished(w, "get_or_create_conversation")
        /\ ret[w].kind = "conversation"
        /\ conversations[ret[w].id].thread_ts = call[w].thread_ts
        /\ conversations[ret[w].id].sla_deadline # call[w].now + call[w].sla_minutes
        /\ conversations[ret[w].id].first_response_deadline
               # call[w].now + call[w].first_response_minutes
\* C37: the Conversation that get_or_create_conversation returns has the
\* channel_id that was asked for, and the Message that save_message returns
\* belongs to the conversation that was asked for, also when the thread_ts
\* or ts is already stored under another channel or conversation.
C37_ReturnedRowMatchesRequest ==
    \A w \in Workers :
        /\ (Finished(w, "get_or_create_conversation") /\ ret[w].kind = "conversation")
              => conversations[ret[w].id].channel_id = call[w].channel_id
        /\ (Finished(w, "save_message") /\ ret[w].kind = "message")
              => messages[ret[w].id].conversation_id = call[w].conversation_id

\* ==================================================================
\* Interactive handlers (src/slack/handlers/action.py) and ActionService
\* ==================================================================
\* class ActionStatus
ActionStatus ==
    {"pending_approval", "approved", "rejected", "running",
     "completed", "failed", "cancelled"}

\* ChannelConfig.approvers of the configured channel
approvers == [c \in {"C1"} |-> {"U1"}]

\* body of an approve_action / reject_action event: body["user"]["id"],
\* body["channel"]["id"] and the event_payload of the message metadata
\* (action_id and thread_ts, None when the key is absent)
ActionBodies ==
    [user_id : {"U1", "U2"},
     channel_id : {"C1"},
     action_id : {None, Some(1), Some(2)},
     thread_ts : {None, Some("100.1")}]

ActionRunRow(id, status) ==
    [id |-> id, conversation_id |-> 1, action_name |-> "restart_service",
     status |-> status, approved_by |-> None]

\* The store as the handlers find it: one conversation, and an ActionRun
\* row in whatever status it was stored with.  No handler creates the row.
ActionInit ==
    /\ ConnectionManagerInit
    /\ ConstructedFrom(DeployedFile)
    /\ conversations = <<NewConversation(1, "C1", "100.1", "U1", 0,
                             DEFAULT_SLA_MINUTES, DEFAULT_FIRST_RESPONSE_MINUTES)>>
    /\ messages = << >>
    /\ clock = 0
    /\ pc = [w \in Workers |-> "idle"]
    /\ call = [w \in Workers |-> NoCall]
    /\ ret = [w \in Workers |-> NoRet]
    /\ started = 0
    /\ \E st \in ActionStatus : actions = <<ActionRunRow(1, st)>>
    /\ audit_events = << >>
    /\ outbox = << >>
    /\ handled = << >>
    /\ feedback = << >>
    /\ stats = NoStats
    /\ frame = [w \in Workers |-> NoFrame]
    /\ metrics = NoMetrics
    /\ delivered = 0

\* stored status of the ActionRun an event names, None when there is no row
stored_status(action_id) ==
    IF action_id # None /\ action_id[1] \in 1..Len(actions)
    THEN Some(actions[action_id[1]].status)
    ELSE None

Ack == [kind |-> "ack"]

\* outcomes of a call on the Slack client
SlackOutcomes == {"ok", "SlackApiError", "Exception"}

\* ActionService.handle_action_approval: logs, then posts the approval
\* message to the thread (ok = FALSE: chat_postMessage raises).  Nothing
\* is read from or written to the store and the approvers are not read.
Propagates(ok) == IF ok THEN "approved_posted" ELSE "raised"
service_outcome(ok) == IF ok THEN "approved_posted" ELSE "error_logged"

\* the calls a handler makes, in the order of its code, for `handled`
ack_then(calls) == <<"ack">> \o calls

handle_action_approval(action_id, user_id, channel_id, thread_ts, ok) ==
    <<[kind |-> "chat_postMessage", channel |-> channel_id, thread_ts |-> thread_ts,
       text |-> "Action approved by user! Starting execution...",
       user_id |-> user_id, ok |-> ok]>>

\* @app.action("approve_action"): ack, read the body, delegate to the
\* service; an exception of the service is logged and swallowed.
handle_approve_action(body, ok) ==
    /\ Len(handled) < MaxEvents
    /\ outbox' = outbox \o <<Ack>> \o
                    handle_action_approval(body.action_id, body.user_id,
                                           body.channel_id, body.thread_ts, ok)
    /\ handled' = Append(handled,
           [handler |-> "approve_action", user_id |-> body.user_id,
            channel_id |-> body.channel_id, action_id |-> body.action_id,
            status_at |-> stored_status(body.action_id),
            thread_ts |-> body.thread_ts,
            calls |-> ack_then(<<"handle_action_approval", "chat_postMessage">>),
            outcome |-> service_outcome(ok)])
    /\ UNCHANGED <<actions, audit_events>>
    /\ UNCHANGED <<conversations, messages, clock, pc, call, ret, started,
                   feedbackVars, handlerVars, configVars, webVars>>

\* @app.action("reject_action"): ack and log the user id.
handle_reject_action(body) ==
    /\ Len(handled) < MaxEvents
    /\ outbox' = outbox \o <<Ack>>
    /\ handled' = Append(handled,
           [handler |-> "reject_action", user_id |-> body.user_id,
            channel_id |-> body.channel_id, action_id |-> body.action_id,
            status_at |-> stored_status(body.action_id),
            thread_ts |-> body.thread_ts,
            calls |-> ack_then(<< >>),
            outcome |-> "logged"])
    /\ UNCHANGED <<actions, audit_events>>
    /\ UNCHANGED <<conversations, messages, clock, pc, call, ret, started,
                   feedbackVars, handlerVars, configVars, webVars>>

\* the fields handle_approve_summary reads from the payload: user.id,
\* channel.id, message.ts and message.metadata.event_payload.thread_ts
SummaryBodies ==
    [user_id : {"U1", "U2"}, channel_id : {"C1"}, message_ts : {"100.5"},
     thread_ts : {None, Some(""), Some("100.1")}]

\* ActionService.handle_summary_approval: logs, then posts to the thread
\* (ok = FALSE: chat_postMessage raises).  Neither the conversation nor the
\* audit table is touched.
handle_summary_approval(user_id, channel_id, thread_ts, ok) ==
    <<[kind |-> "chat_postMessage", channel |-> channel_id, thread_ts |-> thread_ts,
       text |-> "Summary approved! Generating response...",
       user_id |-> user_id, ok |-> ok]>>

\* `if not thread_ts: return` (action.py lines 54-58)
AnyThread(body) == TRUE
has_thread_ts(body) == body.thread_ts # None /\ body.thread_ts # Some("")

\* @app.action("approve_summary"): ack, read the body, return when the
\* metadata has no thread_ts, else delegate to the service; an exception of
\* the service is logged and swallowed.
handle_approve_summary(body, ok) ==
    /\ Len(handled) < MaxEvents
    /\ outbox' = outbox \o <<Ack>> \o
                    (IF has_thread_ts(body)
                     THEN handle_summary_approval(body.user_id, body.channel_id,
                                                  body.thread_ts, ok)
                     ELSE << >>)
    /\ handled' = Append(handled,
           [handler |-> "approve_summary", user_id |-> body.user_id,
            channel_id |-> body.channel_id, action_id |-> None,
            status_at |-> None,
            thread_ts |-> body.thread_ts,
            calls |-> ack_then(IF has_thread_ts(body)
                               THEN <<"handle_summary_approval", "chat_postMessage">>
                               ELSE << >>),
            outcome |-> IF has_thread_ts(body) THEN service_outcome(ok)
                        ELSE "dropped"])
    /\ UNCHANGED <<actions, audit_events>>
    /\ UNCHANGED <<conversations, messages, clock, pc, call, ret, started,
                   feedbackVars, handlerVars, configVars, webVars>>

\* @app.action("edit_summary"): ack, then client.views_open with the
\* trigger_id of the body; only SlackApiError is caught around it.
handle_edit_summary(body, outcome) ==
    /\ Len(handled) < MaxEvents
    /\ outbox' = outbox \o <<Ack>> \o
                    (IF outcome = "ok"
                     THEN <<[kind |-> "views_open", trigger_id |-> "T1",
                             callback_id |-> "edit_summary_modal"]>>
                     ELSE << >>)
    /\ handled' = Append(handled,
           [handler |-> "edit_summary", user_id |-> body.user_id,
            channel_id |-> body.channel_id, action_id |-> None,
            status_at |-> None, thread_ts |-> body.thread_ts,
            calls |-> ack_then(<<"views_open">>),
            outcome |-> IF outcome = "ok" THEN "modal_opened"
                        ELSE IF outcome = "SlackApiError" THEN "error_logged"
                        ELSE "raised"])
    /\ UNCHANGED <<actions, audit_events>>
    /\ UNCHANGED <<conversations, messages, clock, pc, call, ret, started,
                   feedbackVars, handlerVars, configVars, webVars>>

\* @app.action("cancel_summary"): ack and log the user id.
handle_cancel_summary(body) ==
    /\ Len(handled) < MaxEvents
    /\ outbox' = outbox \o <<Ack>>
    /\ handled' = Append(handled,
           [handler |-> "cancel_summary", user_id |-> body.user_id,
            channel_id |-> body.channel_id, action_id |-> None,
            status_at |-> None, thread_ts |-> body.thread_ts,
            calls |-> ack_then(<< >>),
            outcome |-> "logged"])
    /\ UNCHANGED <<actions, audit_events>>
    /\ UNCHANGED <<conversations, messages, clock, pc, call, ret, started,
                   feedbackVars, handlerVars, configVars, webVars>>

ActionNext ==
    \/ \E body \in ActionBodies, ok \in BOOLEAN : handle_approve_action(body, ok)
    \/ \E body \in ActionBodies : handle_reject_action(body)
    \/ \E body \in SummaryBodies, ok \in BOOLEAN : handle_approve_summary(body, ok)
    \/ \E body \in SummaryBodies, outcome \in SlackOutcomes :
          handle_edit_summary(body, outcome)
    \/ \E body \in SummaryBodies : handle_cancel_summary(body)

ActionSpec == ActionInit /\ [][ActionNext]_vars

\* ==================================================================
\* Properties of the action approval flow (checked under ActionSpec)
\* ==================================================================
TerminalStatus == {"rejected", "completed", "failed", "cancelled"}

ApprovalBy(h) == h.handler = "approve_action"
Unauthorized(h) == ApprovalBy(h) /\ h.user_id \notin approvers[h.channel_id]
Authorized(h) == ApprovalBy(h) /\ h.user_id \in approvers[h.channel_id]
UnauthorizedAudits ==
    {j \in DOMAIN audit_events : audit_events[j].result = "unauthorized"}
UnauthorizedAttempts ==
    {i \in DOMAIN handled : Unauthorized(handled[i])}

\* C7: an approve-action request from an identity outside the channel's
\* approvers leaves the ActionRun in PENDING_APPROVAL and appends exactly
\* one AuditEvent with result "unauthorized".
C7_UnauthorizedApprovalAudited ==
    \A i \in DOMAIN handled :
        (Unauthorized(handled[i]) /\ handled[i].status_at = Some("pending_approval"))
            => /\ actions[handled[i].action_id[1]].status = "pending_approval"
               /\ Cardinality(UnauthorizedAudits) = Cardinality(UnauthorizedAttempts)

\* C8: for a user_id outside the channel's approvers, handle_action_approval
\* never marks the action approved, never starts execution and never posts
\* the "Action approved by ... Starting execution" message.
C8_ApproverCheckedFirst ==
    /\ \A j \in DOMAIN outbox :
           (/\ outbox[j].kind = "chat_postMessage"
            /\ outbox[j].text = "Action approved by user! Starting execution..."
            /\ outbox[j].ok)
               => outbox[j].user_id \in approvers[outbox[j].channel]
    /\ \A i \in DOMAIN handled :
           (Unauthorized(handled[i]) /\ handled[i].status_at # None)
               => Some(actions[handled[i].action_id[1]].status) = handled[i].status_at

\* C9: a transition attempt (approve, reject) on an ActionRun whose status is
\* COMPLETED, FAILED, CANCELLED or REJECTED leaves the row unchanged and
\* reports InvalidTransition.
C9_TerminalRejectsTransition ==
    \A i \in DOMAIN handled :
        (handled[i].status_at # None /\ handled[i].status_at[1] \in TerminalStatus)
            => /\ Some(actions[handled[i].action_id[1]].status) = handled[i].status_at
               /\ handled[i].outcome = "invalid_transition"

\* C10: once an approver's approval of a pending action has been processed
\* and execution is announced as started, the stored status has been
\* committed as APPROVED/RUNNING (COMPLETED/FAILED after the executor
\* returned); it is never still PENDING_APPROVAL.
C10_ApprovedCommittedBeforeExecution ==
    \A i \in DOMAIN handled :
        (/\ Authorized(handled[i])
         /\ handled[i].status_at = Some("pending_approval")
         /\ handled[i].outcome = "approved_posted")
            => actions[handled[i].action_id[1]].status
                   \in {"approved", "running", "completed", "failed"}

\* the handled interactions that attempt an external side effect: a summary
\* approval that reaches the service, and an action approval (its
\* authorization check and the execution it starts)
SideEffectAttempts ==
    {i \in DOMAIN handled :
        \/ handled[i].handler = "approve_summary" /\ handled[i].outcome # "dropped"
        \/ handled[i].handler = "approve_action"}

\* C16: every attempted external side effect has appended exactly one
\* AuditEvent, which names the acting user and the channel and carries a
\* payload hash and a result or an error.
C16_SideEffectsAudited ==
    /\ Len(audit_events) = Cardinality(SideEffectAttempts)
    /\ \A i \in SideEffectAttempts :
           \E j \in DOMAIN audit_events :
               /\ audit_events[j].actor_id = handled[i].user_id
               /\ audit_events[j].channel_id = handled[i].channel_id
               /\ audit_events[j].payload_hash # None
               /\ audit_events[j].result # None \/ audit_events[j].error # None

\* the calls of ActionService that the handled interaction i made
ServiceCalls(i) ==
    {k \in DOMAIN handled[i].calls :
        handled[i].calls[k] \in {"handle_summary_approval", "handle_action_approval"}}

\* the messages ActionService.handle_summary_approval sent or tried to send
SummaryPosts ==
    {j \in DOMAIN outbox :
        /\ outbox[j].kind = "chat_postMessage"
        /\ outbox[j].text = "Summary approved! Generating response..."}

\* C27: an interactive event that lacks what the handler needs is dropped:
\* approve_summary without thread_ts and approve_action without action_id
\* in the message metadata are acknowledged, the ActionService is not called
\* and nothing is posted.
C27_MalformedInteractionDropped ==
    \A i \in DOMAIN handled :
        (\/ handled[i].handler = "approve_summary" /\ handled[i].thread_ts = None
         \/ handled[i].handler = "approve_action" /\ handled[i].action_id = None)
            => /\ handled[i].calls = <<"ack">>
               /\ handled[i].outcome = "dropped"

\* C28: each of the five interactive handlers calls ack once, as its first
\* call, before any service or Slack call; an exception of the ActionService
\* ends in the handler's except block and does not leave the handler.
C28_AckFirstServiceContained ==
    /\ \A i \in DOMAIN handled :
           /\ handled[i].calls[1] = "ack"
           /\ {k \in DOMAIN handled[i].calls : handled[i].calls[k] = "ack"} = {1}
           /\ ServiceCalls(i) # {}
                 => handled[i].outcome \in {"approved_posted", "error_logged"}
    /\ Cardinality({j \in DOMAIN outbox : outbox[j] = Ack}) = Len(handled)
    /\ outbox # << >> => outbox[1] = Ack
    /\ \A j \in DOMAIN outbox :
           (outbox[j].kind = "chat_postMessage" /\ ~outbox[j].ok)
               => \E i \in DOMAIN handled :
                     /\ ServiceCalls(i) # {}
                     /\ handled[i].user_id = outbox[j].user_id
                     /\ handled[i].outcome = "error_logged"

\* C28 witness: the service raised in approve_action and in approve_summary,
\* and both handlers returned
C28_Witness ==
    /\ Len(handled) = 2
    /\ handled[1].handler = "approve_action" /\ handled[1].outcome = "error_logged"
    /\ handled[2].handler = "approve_summary" /\ handled[2].outcome = "error_logged"
    /\ Len(outbox) = 4
    /\ ~outbox[2].ok /\ ~outbox[4].ok

get_channel_config(channel_id) ==
    IF channel_id \in DOMAIN channels THEN Some(channels[channel_id]) ELSE None

\* ChannelConfigManager.is_channel_enabled
AlwaysEnabled(channel_id) == TRUE
is_channel_enabled(channel_id) ==
    LET config == get_channel_config(channel_id) IN
    config # None /\ config[1].enabled

\* class FeedbackRating
FeedbackRating == {"helpful", "not_helpful", "neutral"}

FEEDBACK_EMOJI_MAP ==
    [r \in {"+1", "thumbsup", "white_check_mark", "heavy_check_mark",
            "-1", "thumbsdown", "x"} |->
        IF r \in {"+1", "thumbsup", "white_check_mark", "heavy_check_mark"}
        THEN "helpful" ELSE "not_helpful"]

\* `rating = FEEDBACK_EMOJI_MAP[reaction]`
AlwaysHelpful(reaction) == "helpful"
rating_of(reaction) == FEEDBACK_EMOJI_MAP[reaction]

\* reaction_added events: reaction, user, item.channel, item.ts
ReactionEvents ==
    { [reaction |-> "+1", user |-> "U1", channel |-> "C1", ts |-> "100.1"],
      [reaction |-> "x", user |-> "U2", channel |-> "C1", ts |-> "100.1"],
      [reaction |-> "eyes", user |-> "U1", channel |-> "C1", ts |-> "100.1"],
      [reaction |-> "thumbsup", user |-> "U2", channel |-> "C1", ts |-> "100.5"],
      [reaction |-> "+1", user |-> "U2", channel |-> "C2", ts |-> "100.1"],
      [reaction |-> "-1", user |-> "U1", channel |-> "C9", ts |-> "100.1"],
      [reaction |-> "thinking_face", user |-> "U1", channel |-> "C1",
       ts |-> "100.1"] }

FeedbackIds == 1..Len(feedback)

\* Feedback(conversation_id=..., user_id=..., rating=..., message_ts=..., note=...)
NewFeedback(id, conversation_id, user_id, rating, message_ts, note) ==
    [id |-> id,
     conversation_id |-> conversation_id,
     user_id |-> user_id,
     rating |-> rating,
     note |-> note,
     message_ts |-> message_ts]

\* session.add(feedback) + commit: one INSERT into feedback
Upsert(table, row) ==
    LET same == {i \in 1..Len(table) :
                    /\ table[i].user_id = row.user_id
                    /\ table[i].message_ts = row.message_ts}
    IN IF same = {} THEN Append(table, row)
       ELSE LET i == CHOOSE j \in same : TRUE
            IN [table EXCEPT ![i] = [row EXCEPT !.id = i]]
session_add(table, row) == Append(table, row)

\* select(Conversation).join(Message).where(Message.ts == message_ts)
select_conversation_by_message_ts(message_ts) ==
    {c \in ConversationIds :
        \E m \in select_message_by_ts(message_ts) : messages[m].conversation_id = c}

\* ------------------------------------- find_conversation_by_message
\* lines 225-231: one SELECT, scalar_one_or_none()
find_conversation_by_message(w, message_ts) ==
    /\ pc[w] = "idle"
    /\ started' = started + 1
    /\ call' = [call EXCEPT ![w] =
                   [op |-> "find_conversation_by_message", n |-> started + 1,
                    message_ts |-> message_ts]]
    /\ LET found == select_conversation_by_message_ts(message_ts) IN
       ret' = [ret EXCEPT ![w] =
                  IF found = {}
                  THEN [op |-> "find_conversation_by_message", kind |-> "none"]
                  ELSE [op |-> "find_conversation_by_message", kind |-> "conversation",
                        id |-> CHOOSE i \in found : TRUE]]
    /\ UNCHANGED <<conversations, messages, clock, pc, actionVars, feedbackVars>>

\* ---------------------------------------------------- save_feedback
\* lines 254-273: the row is built and inserted; nothing is looked up first
save_feedback(w, conversation_id, user_id, rating, message_ts, note) ==
    /\ pc[w] = "idle"
    /\ started' = started + 1
    /\ call' = [call EXCEPT ![w] =
                   [op |-> "save_feedback", n |-> started + 1,
                    conversation_id |-> conversation_id, user_id |-> user_id,
                    rating |-> rating, message_ts |-> message_ts]]
    /\ LET id == Len(feedback) + 1 IN
       /\ feedback' = session_add(feedback,
              NewFeedback(id, conversation_id, user_id, rating, message_ts, note))
       /\ ret' = [ret EXCEPT ![w] =
                     [op |-> "save_feedback", kind |-> "feedback", id |-> id]]
    /\ UNCHANGED <<conversations, messages, clock, pc, actionVars, stats>>

\* the handler has returned (an exception it caught included)
Returned(handler, event, outcome) ==
    [handler |-> handler, stage |-> "idle", event |-> event, outcome |-> outcome]

\* what an awaited call of the store does to the handler: it completes,
\* or the database raises (a lost connection, a failed INSERT)
DbOutcomes == {"ok", "OperationalError"}

\* `except Exception as e: logger.exception(...)` (reaction.py lines
\* 105-111): the handler ends after the log line
Uncaught(event, error) ==
    [handler |-> "handle_reaction_added", stage |-> "idle", event |-> event,
     outcome |-> "raised"]
reaction_except(event, error) ==
    Returned("handle_reaction_added", event, "error_logged")

\* --------------------------------------------- handle_reaction_added
\* lines 48-77: the two early returns, then the await of
\* find_conversation_by_message; no conversation ends the handler
handle_reaction_added_receive(w, event, db) ==
    /\ UNCHANGED <<configVars, webVars>>
    /\ frame[w].stage = "idle"
    /\ pc[w] = "idle"
    /\ delivered' = delivered + 1
    /\ (~is_channel_enabled(event.channel)
           \/ event.reaction \notin DOMAIN FEEDBACK_EMOJI_MAP) => db = "ok"
    /\ IF ~is_channel_enabled(event.channel)
       THEN /\ frame' = [frame EXCEPT ![w] =
                            Returned("handle_reaction_added", event, "not_enabled")]
            /\ UNCHANGED <<conversations, messages, clock, pc, call, ret, started,
                           actionVars, feedbackVars>>
       ELSE IF event.reaction \notin DOMAIN FEEDBACK_EMOJI_MAP
       THEN /\ frame' = [frame EXCEPT ![w] =
                            Returned("handle_reaction_added", event, "not_feedback")]
            /\ UNCHANGED <<conversations, messages, clock, pc, call, ret, started,
                           actionVars, feedbackVars>>
       ELSE IF db # "ok"
       THEN /\ frame' = [frame EXCEPT ![w] = reaction_except(event, db)]
            /\ UNCHANGED <<conversations, messages, clock, pc, call, ret, started,
                           actionVars, feedbackVars>>
       ELSE /\ find_conversation_by_message(w, event.ts)
            /\ frame' = [frame EXCEPT ![w] =
                            IF ret'[w].kind = "none"
                            THEN Returned("handle_reaction_added", event, "not_found")
                            ELSE [handler |-> "handle_reaction_added",
                                  stage |-> "save_feedback", event |-> event,
                                  rating |-> rating_of(event.reaction),
                                  conversation_id |-> ret'[w].id]]
    /\ UNCHANGED metrics

\* lines 85-97: the await of save_feedback, then the feedback_total metric
handle_reaction_added_save(w, db) ==
    /\ UNCHANGED <<configVars, webVars>>
    /\ frame[w].handler = "handle_reaction_added"
    /\ frame[w].stage = "save_feedback"
    /\ IF db = "ok"
       THEN /\ save_feedback(w, frame[w].conversation_id, frame[w].event.user,
                             frame[w].rating, Some(frame[w].event.ts), None)
            /\ metrics' = [metrics EXCEPT !.feedback_total = @ + 1]
            /\ frame' = [frame EXCEPT ![w] =
                   Returned("handle_reaction_added", frame[w].event, "saved")]
       ELSE /\ frame' = [frame EXCEPT ![w] = reaction_except(frame[w].event, db)]
            /\ UNCHANGED <<conversations, messages, clock, pc, call, ret, started,
                           actionVars, feedbackVars, metrics>>
    /\ UNCHANGED delivered

\* ---------------------------------------------------- handle_message
\* message events: subtype, channel, user, text, ts, thread_ts, files
\* (None: the key is absent)
MessageEvents ==
    { [subtype |-> None, channel |-> "C1", user |-> "U1", text |-> "hello",
       ts |-> "100.1", thread_ts |-> None, files |-> << >>],
      [subtype |-> None, channel |-> "C1", user |-> "U2", text |-> "more",
       ts |-> "100.5", thread_ts |-> Some("100.1"),
       files |-> <<"https://files/a.png">>],
      [subtype |-> Some("file_share"), channel |-> "C1", user |-> "U2",
       text |-> "see file", ts |-> "100.5", thread_ts |-> None,
       files |-> <<"https://files/a.png">>],
      [subtype |-> Some("bot_message"), channel |-> "C1", user |-> "U1",
       text |-> "hello", ts |-> "100.1", thread_ts |-> None, files |-> << >>],
      [subtype |-> Some("message_changed"), channel |-> "C1", user |-> "U1",
       text |-> "hello", ts |-> "100.1", thread_ts |-> None, files |-> << >>],
      [subtype |-> Some("message_deleted"), channel |-> "C1", user |-> "U1",
       text |-> "hello", ts |-> "100.1", thread_ts |-> None, files |-> << >>],
      [subtype |-> None, channel |-> "C2", user |-> "U1", text |-> "hello",
       ts |-> "100.1", thread_ts |-> None, files |-> << >>],
      [subtype |-> None, channel |-> "C9", user |-> "U2", text |-> "hello",
       ts |-> "100.1", thread_ts |-> None, files |-> << >>],
      [subtype |-> None, channel |-> "C1", user |-> "UBOT",
       text |-> "I received your message", ts |-> "100.5",
       thread_ts |-> Some("100.1"), files |-> << >>] }

\* `event.get("subtype") in ["bot_message", "message_changed", "message_deleted"]`
skipped_subtype(event) ==
    event.subtype \in {Some("bot_message"), Some("message_changed"),
                       Some("message_deleted")}

\* `thread_ts = event.get("thread_ts", ts)`
OwnTs(event) == event.ts
thread_ts_of(event) ==
    IF event.thread_ts = None THEN event.ts ELSE event.thread_ts[1]

\* lines 131-145 are entered: the error counter, then the handler waits in
\* the say() of the fallback text
NoErrorCount(w, error) ==
    /\ metrics' = metrics
    /\ frame' = [frame EXCEPT ![w] =
                    [handler |-> "handle_message", stage |-> "fallback",
                     event |-> frame[w].event, error |-> error]]
except_Exception(w, error) ==
    /\ metrics' = [metrics EXCEPT !.messages_processed_error = @ + 1]
    /\ frame' = [frame EXCEPT ![w] =
                    [handler |-> "handle_message", stage |-> "fallback",
                     event |-> frame[w].event, error |-> error]]

\* lines 47-84: the two early returns, the received counter, then the await
\* of get_or_create_conversation (its SELECT)
handle_message_receive(w, event) ==
    /\ UNCHANGED <<configVars, webVars>>
    /\ frame[w].stage = "idle"
    /\ pc[w] = "idle"
    /\ delivered' = delivered + 1
    /\ IF skipped_subtype(event)
       THEN /\ frame' = [frame EXCEPT ![w] =
                            Returned("handle_message", event, "skipped")]
            /\ UNCHANGED <<conversations, messages, clock, pc, call, ret, started,
                           actionVars, feedbackVars, metrics>>
       ELSE /\ metrics' = [metrics EXCEPT !.messages_received_total = @ + 1]
            /\ IF ~is_channel_enabled(event.channel)
               THEN /\ frame' = [frame EXCEPT ![w] =
                                    Returned("handle_message", event, "not_enabled")]
                    /\ UNCHANGED <<conversations, messages, clock, pc, call, ret,
                                   started, actionVars, feedbackVars>>
               ELSE /\ get_or_create_conversation_select(w, event.channel,
                          thread_ts_of(event), event.user,
                          DEFAULT_SLA_MINUTES, DEFAULT_FIRST_RESPONSE_MINUTES)
                    /\ frame' = [frame EXCEPT ![w] =
                          [handler |-> "handle_message",
                           stage |-> IF pc'[w] = "goc_commit"
                                     THEN "get_or_create_conversation"
                                     ELSE "save_message",
                           event |-> event]]

\* line 80 resumes: the commit of get_or_create_conversation; an
\* IntegrityError enters the except block, a row goes on to save_message
handle_message_conversation(w) ==
    /\ UNCHANGED <<configVars, webVars>>
    /\ frame[w].handler = "handle_message"
    /\ frame[w].stage = "get_or_create_conversation"
    /\ get_or_create_conversation_commit(w)
    /\ IF ret'[w].kind = "raised"
       THEN except_Exception(w, "IntegrityError")
       ELSE /\ frame' = [frame EXCEPT ![w] = [@ EXCEPT !.stage = "save_message"]]
            /\ UNCHANGED metrics
    /\ UNCHANGED delivered

\* lines 87-93: the await of save_message (its SELECT) for conversation.id
handle_message_save(w) ==
    /\ UNCHANGED <<configVars, webVars>>
    /\ frame[w].handler = "handle_message"
    /\ frame[w].stage = "save_message"
    /\ LET event == frame[w].event IN
       save_message_select(w, ret[w].id, event.ts,
           [user_id |-> event.user, text |-> event.text, files |-> event.files,
            is_bot_response |-> FALSE, ocr_text |-> None])
    /\ frame' = [frame EXCEPT ![w] =
                    [@ EXCEPT !.stage = IF pc'[w] = "sm_commit"
                                        THEN "save_message_commit"
                                        ELSE "reactions_add"]]
    /\ UNCHANGED <<metrics, delivered>>

\* line 87 resumes: the commit of save_message
handle_message_saved(w) ==
    /\ UNCHANGED <<configVars, webVars>>
    /\ frame[w].handler = "handle_message"
    /\ frame[w].stage = "save_message_commit"
    /\ save_message_commit(w)
    /\ IF ret'[w].kind = "raised"
       THEN except_Exception(w, "IntegrityError")
       ELSE /\ frame' = [frame EXCEPT ![w] = [@ EXCEPT !.stage = "reactions_add"]]
            /\ UNCHANGED metrics
    /\ UNCHANGED delivered

\* lines 96-103: client.reactions_add; only SlackApiError is caught here
CatchNothing(outcome) == FALSE
except_SlackApiError(outcome) == outcome = "SlackApiError"

handle_message_reactions_add(w, outcome) ==
    /\ UNCHANGED <<configVars, webVars>>
    /\ frame[w].handler = "handle_message"
    /\ frame[w].stage = "reactions_add"
    /\ LET event == frame[w].event IN
       outbox' = IF outcome = "ok"
                 THEN Append(outbox, [kind |-> "reactions_add",
                                      channel |-> event.channel,
                                      timestamp |-> event.ts, name |-> "eyes"])
                 ELSE outbox
    /\ IF outcome # "ok" /\ ~except_SlackApiError(outcome)
       THEN except_Exception(w, outcome)
       ELSE /\ frame' = [frame EXCEPT ![w] = [@ EXCEPT !.stage = "process_message"]]
            /\ UNCHANGED metrics
    /\ UNCHANGED <<conversations, messages, clock, pc, call, ret, started,
                   actions, audit_events, handled, feedbackVars, delivered>>

\* MessageProcessor.process_message (message_processor.py lines 58-90) and
\* message.py lines 117-122: no channel config returns at once; say() sends
\* the acknowledgment; an exception of say() is logged and raised again
handle_message_process(w, outcome) ==
    /\ UNCHANGED <<configVars, webVars>>
    /\ frame[w].handler = "handle_message"
    /\ frame[w].stage = "process_message"
    /\ LET event == frame[w].event
           channel_config == get_channel_config(event.channel)
       IN
       IF channel_config = None \/ outcome = "ok"
       THEN /\ outbox' = IF channel_config = None THEN outbox
                         ELSE Append(outbox, [kind |-> "say",
                                              channel |-> event.channel,
                                              thread_ts |-> thread_ts_of(event),
                                              text |-> "I received your message"])
            /\ metrics' = [metrics EXCEPT !.messages_processed_success = @ + 1]
            /\ frame' = [frame EXCEPT ![w] =
                            Returned("handle_message", event, "success")]
       ELSE /\ except_Exception(w, outcome)
            /\ UNCHANGED outbox
    /\ UNCHANGED <<conversations, messages, clock, pc, call, ret, started,
                   actions, audit_events, handled, feedbackVars, delivered>>

\* lines 144-150: say() of the fallback text; its failure is logged only
NoTry(outcome) == IF outcome = "ok" THEN "error" ELSE "raised"
fallback_outcome(outcome) == "error"

handle_message_fallback(w, outcome) ==
    /\ UNCHANGED <<configVars, webVars>>
    /\ frame[w].handler = "handle_message"
    /\ frame[w].stage = "fallback"
    /\ LET event == frame[w].event IN
       /\ outbox' = IF outcome = "ok"
                    THEN Append(outbox, [kind |-> "say",
                                         channel |-> event.channel,
                                         thread_ts |-> thread_ts_of(event),
                                         text |-> "Sorry, I encountered an error"])
                    ELSE outbox
       /\ frame' = [frame EXCEPT ![w] =
                       Returned("handle_message", event, fallback_outcome(outcome))]
    /\ UNCHANGED <<conversations, messages, clock, pc, call, ret, started,
                   actions, audit_events, handled, feedbackVars, metrics, delivered>>

\* ------------------------------------------------------ HandlerSpec
\* The store is empty, or holds the conversation and the message that an
\* earlier run stored for the first message of thread 100.1 in C1.
HandlerInit ==
    /\ ConnectionManagerInit
    /\ ConstructedFrom(DeployedFile)
    /\ \E stored \in BOOLEAN :
          IF stored
          THEN /\ conversations = <<NewConversation(1, "C1", "100.1", "U1", 0,
                                      DEFAULT_SLA_MINUTES,
                                      DEFAULT_FIRST_RESPONSE_MINUTES)>>
               /\ messages = <<NewMessage(1, 1, "100.1",
                                  [user_id |-> "U1", text |-> "hello",
                                   files |-> << >>, is_bot_response |-> FALSE,
                                   ocr_text |-> None])>>
          ELSE /\ conversations = << >>
               /\ messages = << >>
    /\ clock = 0
    /\ pc = [w \in Workers |-> "idle"]
    /\ call = [w \in Workers |-> NoCall]
    /\ ret = [w \in Workers |-> NoRet]
    /\ started = 0
    /\ actions = << >>
    /\ audit_events = << >>
    /\ outbox = << >>
    /\ handled = << >>
    /\ feedback = << >>
    /\ stats = NoStats
    /\ frame = [w \in Workers |-> NoFrame]
    /\ metrics = NoMetrics
    /\ delivered = 0

\* Slack delivers at most MaxDeliveries events, to any idle worker
HandlerNext ==
    \/ \E w \in Workers, event \in MessageEvents :
          delivered < MaxDeliveries /\ handle_message_receive(w, event)
    \/ \E w \in Workers : handle_message_conversation(w)
    \/ \E w \in Workers : handle_message_save(w)
    \/ \E w \in Workers : handle_message_saved(w)
    \/ \E w \in Workers, outcome \in SlackOutcomes :
          handle_message_reactions_add(w, outcome)
    \/ \E w \in Workers, outcome \in SlackOutcomes :
          handle_message_process(w, outcome)
    \/ \E w \in Workers, outcome \in SlackOutcomes :
          handle_message_fallback(w, outcome)

HandlerSpec == HandlerInit /\ [][HandlerNext]_vars

\* ------------------------------------------------------ ReactionSpec
\* Slack delivers at most MaxDeliveries reaction_added events, to any idle
\* worker; the store is the one of HandlerInit.
ReactionNext ==
    \/ \E w \in Workers, event \in ReactionEvents, db \in DbOutcomes :
          delivered < MaxDeliveries /\ handle_reaction_added_receive(w, event, db)
    \/ \E w \in Workers, db \in DbOutcomes : handle_reaction_added_save(w, db)

ReactionSpec == HandlerInit /\ [][ReactionNext]_vars

\* -------------------------------------------------------- ConfigSpec
\* The manager is constructed with any file for which __init__ returns;
\* the operator replaces the file and calls reload while the workers
\* handle reaction_added events against the loaded configuration.
ConfigInit ==
    /\ ConnectionManagerInit
    /\ \E file \in ConfigFiles : ConstructedFrom(file)
    /\ conversations = <<NewConversation(1, "C1", "100.1", "U1", 0,
                             DEFAULT_SLA_MINUTES, DEFAULT_FIRST_RESPONSE_MINUTES)>>
    /\ messages = <<NewMessage(1, 1, "100.1",
                       [user_id |-> "U1", text |-> "hello", files |-> << >>,
                        is_bot_response |-> FALSE, ocr_text |-> None])>>
    /\ clock = 0
    /\ pc = [w \in Workers |-> "idle"]
    /\ call = [w \in Workers |-> NoCall]
    /\ ret = [w \in Workers |-> NoRet]
    /\ started = 0
    /\ actions = << >>
    /\ audit_events = << >>
    /\ outbox = << >>
    /\ handled = << >>
    /\ feedback = << >>
    /\ stats = NoStats
    /\ frame = [w \in Workers |-> NoFrame]
    /\ metrics = NoMetrics
    /\ delivered = 0

ConfigNext ==
    \/ \E file \in ConfigFiles : write_file(file)
    \/ reload
    \/ \E w \in Workers, event \in ReactionEvents, db \in DbOutcomes :
          delivered < MaxDeliveries /\ handle_reaction_added_receive(w, event, db)
    \/ \E w \in Workers, db \in DbOutcomes : handle_reaction_added_save(w, db)

ConfigSpec == ConfigInit /\ [][ConfigNext]_vars

\* ==================================================================
\* Properties of the channel configuration (checked under ConfigSpec)
\* ==================================================================
ChannelIds == {"C1", "C2", "C9", "C_EXAMPLE"}

\* the channel configurations written in a file
FileChannels(file) ==
    {[channel_id |-> file.entries[i].channel_id,
      enabled |-> file.entries[i].enabled] : i \in DOMAIN file.entries}

\* the channels that are configured and enabled
EnabledChannels == {c \in ChannelIds : is_channel_enabled(c)}

\* C33: after a reload() that returns, the configured channels are exactly
\* those of the file as it was when reload was called: list_channels,
\* get_channel_config and is_channel_enabled answer from that file alone,
\* whatever was loaded before; a step of a handler changes neither the
\* loaded channels nor the file.
C33_ReloadLoadsTheFile ==
    [][/\ (reload /\ config_call'.kind = "returned")
             => /\ list_channels' = FileChannels(config_file)
                /\ \A c \in ChannelIds :
                      /\ get_channel_config(c)' # None
                            <=> \E config \in FileChannels(config_file) :
                                   config.channel_id = c
                      /\ get_channel_config(c)' # None
                            => get_channel_config(c)'[1] \in FileChannels(config_file)
                      /\ is_channel_enabled(c)'
                            <=> \E config \in FileChannels(config_file) :
                                   config.channel_id = c /\ config.enabled
       /\ (\E w \in Workers : frame'[w] # frame[w])
             => UNCHANGED <<config_file, channels, config_call>>]_vars

\* C33 witness: a reload dropped C1, which was enabled, and brought in C9
\* and an enabled C2, and a reaction in C2 was then saved as feedback
C33_Witness ==
    /\ config_call.op = "reload" /\ config_call.kind = "returned"
    /\ DOMAIN channels = {"C2", "C9"}
    /\ EnabledChannels = {"C2", "C9"}
    /\ \E w \in Workers :
          /\ frame[w].handler = "handle_reaction_added"
          /\ frame[w].stage = "idle"
          /\ frame[w].event.channel = "C2"
          /\ frame[w].outcome = "saved"

\* C34: a manager constructed while the file does not exist has created
\* the default file and lists exactly one channel, C_EXAMPLE, disabled.
C34_DefaultConfigLoaded ==
    (config_call.op = "__init__" /\ config_call.file = MissingFile)
        => list_channels = {[channel_id |-> "C_EXAMPLE", enabled |-> FALSE]}

\* C39: a reload() that raises leaves the configuration that was loaded
\* before in effect: the enabled channels are the same after it as before.
C39_FailedReloadKeepsConfig ==
    [][(reload /\ config_call'.kind = "raised")
          => EnabledChannels' = EnabledChannels]_vars

\* ==================================================================
\* Properties of the event handlers (handle_message under HandlerSpec,
\* handle_reaction_added under ReactionSpec)
\* ==================================================================
\* the handler run by worker w takes a step
HandlerSteps(w, handler) == frame'[w] # frame[w] /\ frame'[w].handler = handler

\* feedback' is feedback with exactly one row added
OneRowAdded ==
    /\ Len(feedback') = Len(feedback) + 1
    /\ \A i \in FeedbackIds : feedback'[i] = feedback[i]

C18_RedeliveredReactionStoredOnce ==
    \A i, j \in FeedbackIds :
        (/\ feedback[i].conversation_id = feedback[j].conversation_id
         /\ feedback[i].user_id = feedback[j].user_id
         /\ feedback[i].rating = feedback[j].rating
         /\ feedback[i].message_ts = feedback[j].message_ts) => i = j

\* what C20 calls an event to ignore: one of the three subtypes, or a
\* channel that has no entry or an entry with enabled: false
Ignored(event) ==
    \/ event.subtype \in {Some("bot_message"), Some("message_changed"),
                          Some("message_deleted")}
    \/ event.channel \notin DOMAIN channels
    \/ ~channels[event.channel].enabled

\* C20: handle_message, given an event with subtype bot_message,
\* message_changed or message_deleted, or an event of a channel that is not
\* configured and enabled, returns at once: no row of any table changes and
\* nothing is sent to Slack.
C20_IgnoredEventsChangeNothing ==
    [][\A w \in Workers :
          (HandlerSteps(w, "handle_message") /\ Ignored(frame'[w].event))
              => /\ frame'[w].stage = "idle"
                 /\ pc'[w] = "idle"
                 /\ UNCHANGED <<conversations, messages, feedback, actions,
                                audit_events, outbox>>]_vars

\* C20 witness: one worker has returned from an event of the disabled
\* channel C2, the other from a bot_message event of the enabled channel
C20_Witness ==
    \E w, v \in Workers :
        /\ frame[w].handler = "handle_message" /\ frame[w].stage = "idle"
        /\ frame[w].event.subtype = None
        /\ frame[w].event.channel = "C2"
        /\ frame[v].handler = "handle_message" /\ frame[v].stage = "idle"
        /\ frame[v].event.subtype = Some("bot_message")
        /\ frame[v].event.channel = "C1"
        /\ metrics.messages_received_total = 1
        /\ outbox = << >>

\* C19: handle_message never lets an exception out.  An IntegrityError of
\* get_or_create_conversation or save_message, or an exception of
\* reactions_add or of the acknowledgment, moves the handler into its except
\* block with the error counter incremented by one; there the fallback
\* reply is attempted once and the handler returns whether or not that
\* reply could be sent, leaving the worker free for the next event.
C19_HandleMessageContainsErrors ==
    [][\A w \in Workers :
          HandlerSteps(w, "handle_message")
              => /\ frame'[w].stage = "idle"
                       => frame'[w].outcome \in
                              {"skipped", "not_enabled", "success", "error"}
                 /\ (/\ frame[w].stage \in {"get_or_create_conversation",
                                            "save_message_commit"}
                     /\ ret'[w].kind = "raised")
                       => frame'[w].stage = "fallback"
                 /\ frame[w].stage = "process_message"
                       => \/ frame'[w].stage = "fallback"
                          \/ frame'[w].stage = "idle" /\ frame'[w].outcome = "success"
                 /\ (frame'[w].stage = "fallback" /\ frame[w].stage # "fallback")
                       => metrics'.messages_processed_error
                              = metrics.messages_processed_error + 1
                 /\ frame[w].stage = "fallback"
                       => /\ frame'[w].stage = "idle"
                          /\ frame'[w].outcome = "error"
                          /\ pc'[w] = "idle"
                          /\ Len(outbox') <= Len(outbox) + 1
                          /\ UNCHANGED <<conversations, messages, metrics>>]_vars

\* C19 witness: one worker handled two events in a row; the first one failed
\* after its conversation was stored (one error counted), the second one,
\* of another thread, got its own conversation and succeeded
C19_Witness ==
    \E w \in Workers :
        /\ \A v \in Workers \ {w} : frame[v] = NoFrame
        /\ delivered = 2
        /\ frame[w].handler = "handle_message"
        /\ frame[w].stage = "idle"
        /\ frame[w].outcome = "success"
        /\ metrics.messages_processed_error = 1
        /\ metrics.messages_processed_success = 1
        /\ Len(conversations) = 2
        /\ conversations[2].thread_ts = thread_ts_of(frame[w].event)

\* C21: a message event whose author is the bot's own user (UBOT, the
\* user_id auth_test returns) is ignored although it has no bot_message
\* subtype: the handler returns at once, get_or_create_conversation is not
\* called and nothing is sent.
C21_OwnMessagesIgnored ==
    [][\A w \in Workers :
          (HandlerSteps(w, "handle_message") /\ frame'[w].event.user = "UBOT")
              => /\ frame'[w].stage = "idle"
                 /\ pc'[w] = "idle"
                 /\ UNCHANGED <<call, conversations, messages, outbox>>]_vars

\* C31: handle_reaction_added never lets an exception out: a failure of the
\* store in find_conversation_by_message or in save_feedback ends the
\* handler in its except block with no row stored; no Feedback is stored
\* for an event of a channel that is not enabled or for a message that no
\* conversation owns, and a stored row belongs to the conversation that
\* owns the reacted message.
C31_ReactionHandlerContainsErrors ==
    [][\A w \in Workers :
          HandlerSteps(w, "handle_reaction_added")
              => LET event == frame'[w].event IN
                 /\ frame'[w].stage = "idle"
                       => /\ frame'[w].outcome \in
                                {"not_enabled", "not_feedback", "not_found",
                                 "saved", "error_logged"}
                          /\ pc'[w] = "idle"
                 /\ ~is_channel_enabled(event.channel)
                       => feedback' = feedback /\ frame'[w].stage = "idle"
                 /\ (frame'[w].stage = "idle"
                        /\ frame'[w].outcome \in {"not_found", "error_logged"})
                       => feedback' = feedback
                 /\ select_conversation_by_message_ts(event.ts) = {}
                       => feedback' = feedback /\ frame'[w].stage = "idle"
                 /\ feedback' # feedback
                       => /\ OneRowAdded
                          /\ feedback'[Len(feedback')].conversation_id
                                \in select_conversation_by_message_ts(event.ts)]_vars

\* C31 witness: one worker found the conversation and then save_feedback
\* failed, the other returned from an event of a channel that is not
\* enabled; no row is stored and both workers are idle
C31_Witness ==
    \E w, v \in Workers :
        /\ frame[w].handler = "handle_reaction_added" /\ frame[w].stage = "idle"
        /\ frame[w].outcome = "error_logged"
        /\ call[w].op = "find_conversation_by_message"
        /\ ret[w].kind = "conversation"
        /\ frame[v].handler = "handle_reaction_added" /\ frame[v].stage = "idle"
        /\ frame[v].outcome = "not_enabled"
        /\ feedback = << >>
        /\ pc[w] = "idle" /\ pc[v] = "idle"

\* C30: the handler of a reaction_added event whose reaction is neither a
\* helpful nor a not-helpful symbol (thinking_face), on a stored message of
\* an enabled channel, returns only after one save_feedback call that
\* stored one row with the neutral rating.
C30_NeutralReactionSaved ==
    [][\A w \in Workers :
          (/\ HandlerSteps(w, "handle_reaction_added")
           /\ frame'[w].stage = "idle"
           /\ frame'[w].event.reaction \notin DOMAIN FEEDBACK_EMOJI_MAP
           /\ is_channel_enabled(frame'[w].event.channel)
           /\ select_conversation_by_message_ts(frame'[w].event.ts) # {})
              => /\ frame'[w].outcome = "saved"
                 /\ OneRowAdded
                 /\ feedback'[Len(feedback')].rating = "neutral"
                 /\ feedback'[Len(feedback')].user_id = frame'[w].event.user]_vars

\* C22: the conversation handle_message resolves for an event is the one
\* row of the event's channel whose thread_ts is the event's thread_ts, or
\* the event's own ts when the event has no thread_ts: the first message of
\* a thread and the replies to it get the same Conversation.
C22_KeyedByThread ==
    [][\A w \in Workers :
          (/\ HandlerSteps(w, "handle_message")
           /\ frame[w].stage \in {"idle", "get_or_create_conversation"}
           /\ frame'[w].stage = "save_message")
              => LET event == frame'[w].event
                     key == IF event.thread_ts = None THEN event.ts
                            ELSE event.thread_ts[1]
                 IN /\ ret'[w].kind = "conversation"
                    /\ conversations'[ret'[w].id].thread_ts = key
                    /\ \A i \in 1..Len(conversations') :
                          conversations'[i].thread_ts = key => i = ret'[w].id]_vars

\* C22 witness: the store was empty; one worker created the conversation
\* for the first message (ts 100.1, no thread_ts) and finished, the other
\* resolved the same row for a reply (ts 100.5, thread_ts 100.1)
C22_Witness ==
    \E w, v \in Workers :
        /\ frame[w].handler = "handle_message" /\ frame[w].stage = "idle"
        /\ frame[w].outcome = "success"
        /\ frame[w].event.thread_ts = None /\ frame[w].event.ts = "100.1"
        /\ frame[w].event.channel = "C1"
        /\ frame[v].handler = "handle_message" /\ frame[v].stage = "save_message"
        /\ frame[v].event.thread_ts = Some("100.1") /\ frame[v].event.ts = "100.5"
        /\ ret[v].kind = "conversation" /\ ret[v].id = 1
        /\ Len(conversations) = 1
        /\ Len(messages) = 1 /\ messages[1].conversation_id = 1
        /\ call[w].op = "save_message" /\ call[w].n = 2

\* C32: process_message does not raise when the acknowledgment cannot be
\* sent: whatever say() does, process_message returns normally to
\* handle_message, which counts the event as a success.
C32_ProcessMessageContainsSayError ==
    [][\A w \in Workers :
          (HandlerSteps(w, "handle_message") /\ frame[w].stage = "process_message")
              => /\ frame'[w].stage = "idle"
                 /\ frame'[w].outcome = "success"]_vars

\* the acknowledgment replies of process_message in the outbox
AckReplies ==
    {j \in DOMAIN outbox :
        outbox[j].kind = "say" /\ outbox[j].text = "I received your message"}

\* a Conversation for the event's thread and a Message with the event's ts
\* are stored
Ingested(event) ==
    /\ \E c \in ConversationIds :
          conversations[c].thread_ts = (IF event.thread_ts = None THEN event.ts
                                        ELSE event.thread_ts[1])
    /\ \E m \in MessageIds : messages[m].ts = event.ts

C36_OneAcknowledgmentPerTs ==
    \A w1, w2 \in Workers :
        (/\ w1 # w2
         /\ frame[w1].handler = "handle_message" /\ frame[w2].handler = "handle_message"
         /\ frame[w1].stage = "idle" /\ frame[w2].stage = "idle"
         /\ frame[w1].outcome = "success" /\ frame[w2].outcome = "success"
         /\ frame[w1].event.ts = frame[w2].event.ts)
            => Cardinality({j \in AckReplies :
                               outbox[j].thread_ts = thread_ts_of(frame[w1].event)}) <= 1

\* a run of handle_message that passed the subtype and channel checks and
\* is inside the try block, before either processed counter is touched
InTry(f) == f.handler = "handle_message" /\ f.stage \notin {"idle", "fallback"}

messages_processed_total == metrics.messages_processed_success + metrics.messages_processed_error

\* C40: success plus error never exceeds messages_received_total (the runs
\* still inside the try block included), and every event that passed the
\* subtype and channel checks adds exactly one to exactly one of the two
\* counters, on the step that leaves the try block, and nothing before or
\* after it.
C40_ProcessedCountedOnce ==
    [][/\ messages_processed_total + Cardinality({w \in Workers : InTry(frame[w])})
             <= metrics.messages_received_total
       /\ messages_processed_total' + Cardinality({w \in Workers : InTry(frame'[w])})
             <= metrics'.messages_received_total
       /\ \A w \in Workers :
             /\ (~InTry(frame[w]) /\ InTry(frame'[w]))
                   => /\ metrics'.messages_received_total = metrics.messages_received_total + 1
                      /\ messages_processed_total' = messages_processed_total
             /\ (InTry(frame[w]) /\ ~InTry(frame'[w]))
                   => \/ /\ frame'[w].stage = "fallback"
                         /\ metrics'.messages_processed_error = metrics.messages_processed_error + 1
                         /\ metrics'.messages_processed_success = metrics.messages_processed_success
                      \/ /\ frame'[w].stage = "idle" /\ frame'[w].outcome = "success"
                         /\ metrics'.messages_processed_success = metrics.messages_processed_success + 1
                         /\ metrics'.messages_processed_error = metrics.messages_processed_error
             /\ (InTry(frame[w]) = InTry(frame'[w]) /\ frame'[w] # frame[w])
                   => messages_processed_total' = messages_processed_total]_vars

\* C40 witness: two events passed the checks; one run ended in success and
\* the other in the except block, each counted once
C40_Witness ==
    /\ metrics.messages_received_total = 2
    /\ metrics.messages_processed_success = 1
    /\ metrics.messages_processed_error = 1
    /\ \E w1, w2 \in Workers :
          /\ frame[w1].handler = "handle_message" /\ frame[w1].stage = "idle"
          /\ frame[w1].outcome = "success"
          /\ frame[w2].handler = "handle_message" /\ frame[w2].stage = "idle"
          /\ frame[w2].outcome = "error"

\* -------------------------------------------------------- StoreSpec
\* Every operation of ConversationService, called directly by the workers:
\* all the writes the handlers and the web application make to the store
\* go through these operations.
QuestionType == {"bug", "how_to", "feature_request", "ops_action", "other"}

StoreNext ==
    \/ Next
    \/ \E w \in Workers, ts \in MessageTs :
          /\ started < MaxCalls
          /\ find_conversation_by_message(w, ts)
          /\ UNCHANGED <<handlerVars, configVars, webVars>>
    \/ \E w \in Workers, c \in ConversationIds, rating \in FeedbackRating :
          /\ started < MaxCalls
          /\ save_feedback(w, c, "U1", rating, Some("100.1"), None)
          /\ UNCHANGED <<handlerVars, configVars, webVars>>
    \/ \E w \in Workers, c \in 1..(Len(conversations) + 1) :
          /\ started < MaxCalls
          /\ update_conversation_type_select(w, c, "bug")
          /\ UNCHANGED <<handlerVars, configVars, webVars>>
    \/ \E w \in Workers :
          update_conversation_type_commit(w) /\ UNCHANGED <<handlerVars, configVars, webVars>>
    \/ \E w \in Workers, c \in 1..(Len(conversations) + 1) :
          /\ started < MaxCalls
          /\ update_conversation_summary_select(w, c, "login fails", TRUE)
          /\ UNCHANGED <<handlerVars, configVars, webVars>>
    \/ \E w \in Workers :
          update_conversation_summary_commit(w) /\ UNCHANGED <<handlerVars, configVars, webVars>>

StoreSpec == Init /\ [][StoreNext]_vars

\* ==================================================================
\* Properties of the stored history (checked under StoreSpec)
\* ==================================================================
\* C26: update_conversation_type, update_conversation_summary and
\* mark_first_response, called with a conversation id that has no row,
\* change no row and tell the caller that the conversation was not found
\* (a distinct return value or an exception), unlike a call that found it.
C26_NotFoundReported ==
    [][\A w \in Workers :
          (/\ \/ Starts(w, "update_conversation_type")
              \/ Starts(w, "update_conversation_summary")
              \/ Starts(w, "mark_first_response")
           /\ ~call'[w].found)
              => /\ UNCHANGED <<conversations, messages, feedback>>
                 /\ pc'[w] = "idle"
                 /\ ret'[w].kind \in {"not_found", "raised"}]_vars

\* every row of table is still in table', unchanged
RowsKept(table) ==
    /\ Len(table') >= Len(table)
    /\ \A i \in 1..Len(table) : table'[i] = table[i]

\* C17: no step of any service operation modifies or removes a stored
\* Feedback or AuditEvent row, modifies or removes a stored Message row, or
\* removes a Conversation row (a Conversation row keeps its id, channel,
\* thread_ts and opener; its other columns may be updated).
C17_HistoryAppendOnly ==
    [][/\ RowsKept(feedback)
       /\ RowsKept(audit_events)
       /\ RowsKept(messages)
       /\ Len(conversations') >= Len(conversations)
       /\ \A i \in ConversationIds :
             /\ conversations'[i].id = conversations[i].id
             /\ conversations'[i].channel_id = conversations[i].channel_id
             /\ conversations'[i].thread_ts = conversations[i].thread_ts
             /\ conversations'[i].user_id = conversations[i].user_id]_vars

\* C17 witness: a second Feedback row of the same user for the same message
\* was stored after the first, which is still there with its own rating
C17_Witness ==
    /\ Len(feedback) = 2
    /\ feedback[1].user_id = feedback[2].user_id
    /\ feedback[1].message_ts = feedback[2].message_ts
    /\ feedback[1].rating = "helpful"
    /\ feedback[2].rating = "not_helpful"
    /\ Len(conversations) = 1

\* ==================================================================
\* GET /api/stats (src/web/app.py), next to workers that store feedback
\* ==================================================================
\* `(helpful_count / feedback_count * 100) if feedback_count > 0 else 0`,
\* as the fraction <<numerator, denominator>>
NoPercent(helpful_count, feedback_count) ==
    IF feedback_count > 0 THEN <<helpful_count, feedback_count>> ELSE <<0, 1>>
helpful_rate(helpful_count, feedback_count) ==
    IF feedback_count > 0 THEN <<helpful_count * 100, feedback_count>> ELSE <<0, 1>>

\* round(x, 2): the nearest multiple of 0.01, a tie going to the even one;
\* the result is given in hundredths (7500 is 75.0)
round_2(x) ==
    LET q == (x[1] * 100) \div x[2]
        r == (x[1] * 100) % x[2]
    IN IF 2 * r < x[2] THEN q
       ELSE IF 2 * r > x[2] THEN q + 1
       ELSE IF q % 2 = 0 THEN q ELSE q + 1

\* select(func.count(Feedback.id)).where(Feedback.rating == HELPFUL)
count_helpful == Cardinality({i \in FeedbackIds : feedback[i].rating = "helpful"})

\* select(func.count(Conversation.id)).where(status == ACTIVE)
count_active == Cardinality({i \in ConversationIds : conversations[i].status = "active"})

\* select(question_type, count(id)) ... group_by(question_type)
type_counts ==
    [t \in {conversations[i].question_type[1] :
               i \in {j \in ConversationIds : conversations[j].question_type # None}} |->
        Cardinality({i \in ConversationIds : conversations[i].question_type = Some(t)})]

statsFrame == <<conversations, messages, clock, pc, call, ret, started,
                actionVars, feedback, handlerVars, configVars, webVars>>

\* line 115: count of conversations
get_stats_total ==
    /\ stats.pc = "idle"
    /\ stats' = [pc |-> "active", total_count |-> Len(conversations)]
    /\ UNCHANGED statsFrame

\* lines 119-124: count of ACTIVE conversations
get_stats_active ==
    /\ stats.pc = "active"
    /\ stats' = [pc |-> "feedback", total_count |-> stats.total_count,
                 active_count |-> count_active]
    /\ UNCHANGED statsFrame

\* lines 127-128: count of feedback rows
get_stats_feedback ==
    /\ stats.pc = "feedback"
    /\ stats' = [pc |-> "helpful", total_count |-> stats.total_count,
                 active_count |-> stats.active_count,
                 feedback_count |-> Len(feedback)]
    /\ UNCHANGED statsFrame

\* lines 131-137: count of HELPFUL feedback rows, then the rate
get_stats_helpful ==
    /\ stats.pc = "helpful"
    /\ stats' = [pc |-> "types", total_count |-> stats.total_count,
                 active_count |-> stats.active_count,
                 feedback_count |-> stats.feedback_count,
                 helpful_count |-> count_helpful,
                 helpful_rate |-> helpful_rate(count_helpful, stats.feedback_count)]
    /\ UNCHANGED statsFrame

\* lines 140-157: the type distribution, then the response
get_stats_return ==
    /\ stats.pc = "types"
    /\ stats' = [pc |-> "idle",
                 result |-> [total_conversations |-> stats.total_count,
                             active_conversations |-> stats.active_count,
                             total_feedback |-> stats.feedback_count,
                             helpful_count |-> stats.helpful_count,
                             helpful_rate |-> round_2(stats.helpful_rate),
                             type_distribution |-> type_counts]]
    /\ UNCHANGED statsFrame

\* -------------------------------------------------------- StatsSpec
\* feedback rows stored by earlier runs: any ratings, at most MaxFeedback
StoredRatings == UNION {[1..n -> FeedbackRating] : n \in 0..MaxFeedback}

StatsInit ==
    /\ ConnectionManagerInit
    /\ ConstructedFrom(DeployedFile)
    /\ conversations = <<NewConversation(1, "C1", "100.1", "U1", 0,
                             DEFAULT_SLA_MINUTES, DEFAULT_FIRST_RESPONSE_MINUTES)>>
    /\ messages = <<NewMessage(1, 1, "100.1",
                       [user_id |-> "U1", text |-> "hello", files |-> << >>,
                        is_bot_response |-> FALSE, ocr_text |-> None])>>
    /\ \E ratings \in StoredRatings :
          feedback = [i \in 1..Len(ratings) |->
                         NewFeedback(i, 1, "U2", ratings[i], Some("100.1"), None)]
    /\ clock = 0
    /\ pc = [w \in Workers |-> "idle"]
    /\ call = [w \in Workers |-> NoCall]
    /\ ret = [w \in Workers |-> NoRet]
    /\ started = 0
    /\ actions = << >>
    /\ audit_events = << >>
    /\ outbox = << >>
    /\ handled = << >>
    /\ stats = NoStats
    /\ frame = [w \in Workers |-> NoFrame]
    /\ metrics = NoMetrics
    /\ delivered = 0

\* requests for /api/stats, one at a time, while a worker stores the
\* feedback of up to MaxCalls reactions
StatsNext ==
    \/ get_stats_total
    \/ get_stats_active
    \/ get_stats_feedback
    \/ get_stats_helpful
    \/ get_stats_return
    \/ \E rating \in {"helpful", "not_helpful"} :
          /\ started < MaxCalls
          /\ save_feedback("w1", 1, "U1", rating, Some("100.1"), None)
          /\ UNCHANGED <<handlerVars, configVars, webVars>>

StatsSpec == StatsInit /\ [][StatsNext]_vars

\* ==================================================================
\* Properties of get_stats (checked under StatsSpec)
\* ==================================================================
\* get_stats builds its response in this step
Responds == stats.pc = "types" /\ stats'.pc = "idle"

\* C14 as stated: the helpful rate in the response is exactly
\* 100 * count(HELPFUL) / count(all) over the feedback rows stored when the
\* response is built, and 0 when there are none.  (helpful_rate is in
\* hundredths, so the exact rate r satisfies r * count(all) = 10000 * count(HELPFUL).)
C14_HelpfulRateExact ==
    [][Responds =>
          LET rate == stats'.result.helpful_rate IN
          IF Len(feedback) = 0 THEN rate = 0
          ELSE rate * Len(feedback) = 10000 * count_helpful]_vars

\* C14 amended: the helpful rate in the response is 100 * helpful_count /
\* total_feedback of the two counts in the same response, rounded to two
\* decimals, and 0 when total_feedback is 0; helpful_count is the number of
\* HELPFUL rows of the whole table when no row was stored since
\* total_feedback was counted.
C14_HelpfulRateRounded ==
    [][/\ Responds =>
             LET r == stats'.result IN
             IF r.total_feedback = 0 THEN r.helpful_rate = 0
             ELSE 2 * r.total_feedback * r.helpful_rate - 20000 * r.helpful_count
                      \in (0 - r.total_feedback)..r.total_feedback
       /\ (stats.pc = "helpful" /\ stats'.pc = "types"
              /\ stats.feedback_count = Len(feedback))
             => stats'.helpful_count = count_helpful]_vars

\* C14 witness: the response for 3 HELPFUL rows and 1 NOT_HELPFUL row says 75.0
C14_Witness ==
    /\ stats.pc = "idle"
    /\ stats # NoStats
    /\ stats.result.total_feedback = 4
    /\ stats.result.helpful_count = 3
    /\ stats.result.helpful_rate = 7500
    /\ Len(feedback) = 4
    /\ count_helpful = 3

\* ==================================================================
\* External collaborators: QuestionClassifier (src/classifier/
\* question_classifier.py), JiraClient and EmailClient (src/integrations).
\* Each call is one step; `handled` logs the call with what it gave back to
\* its caller, `outbox` the requests that went out.
\* ==================================================================
\* what a call gives its caller: a value, or an exception that leaves it
Return(value) == [kind |-> "returned", value |-> value]
Raise(error) == [kind |-> "raised", error |-> error]

\* ---------------------------------------- QuestionClassifier.classify
\* A model reply is a sequence of characters.  `spells` is the label a
\* reader finds in it once surrounding whitespace and letter case are set
\* aside, "none" when it is not one of the five labels.
Replies ==
    { [text |-> <<"b", "u", "g">>, spells |-> "bug"],
      [text |-> <<" ", "B", "u", "g", "\n">>, spells |-> "bug"],
      [text |-> <<"H", "O", "W", "_", "T", "O">>, spells |-> "how_to"],
      [text |-> <<"f", "e", "a", "t", "u", "r", "e", "_",
                  "r", "e", "q", "u", "e", "s", "t">>, spells |-> "feature_request"],
      [text |-> <<"o", "p", "s", "_", "a", "c", "t", "i", "o", "n", "\n">>,
       spells |-> "ops_action"],
      [text |-> <<"o", "t", "h", "e", "r">>, spells |-> "other"],
      [text |-> <<"b", "u", "g", ".">>, spells |-> "none"],
      [text |-> <<"h", "o", "w", " ", "t", "o">>, spells |-> "none"],
      [text |-> <<" ">>, spells |-> "none"],
      [text |-> << >>, spells |-> "none"] }

\* what the awaited LLM call does: it raises, or the response's content is
\* a reply, or None (a response without text)
LLMOutcomes ==
    [kind : {"raised"}, error : {"APIError", "TimeoutError"}]
        \cup [kind : {"response"}, content : {None} \cup {Some(r) : r \in Replies}]

\* str.strip(): leading and trailing whitespace removed
whitespace == {" ", "\n", "\t"}
strip(text) ==
    LET kept == {i \in DOMAIN text : text[i] \notin whitespace} IN
    IF kept = {} THEN << >>
    ELSE SubSeq(text, CHOOSE i \in kept : \A j \in kept : i <= j,
                      CHOOSE i \in kept : \A j \in kept : j <= i)

\* str.lower() on the letters the replies use
upper_to_lower ==
    [c \in {"B", "H", "O", "W", "T"} |->
        CASE c = "B" -> "b" [] c = "H" -> "h" [] c = "O" -> "o"
          [] c = "W" -> "w" [] c = "T" -> "t"]
lower(text) ==
    [i \in DOMAIN text |->
        IF text[i] \in DOMAIN upper_to_lower THEN upper_to_lower[text[i]]
        ELSE text[i]]

\* type_map (lines 87-93), as its (key, value) items, and
\* type_map.get(classification, QuestionType.OTHER)
type_map ==
    { << <<"b", "u", "g">>, "bug" >>,
      << <<"h", "o", "w", "_", "t", "o">>, "how_to" >>,
      << <<"f", "e", "a", "t", "u", "r", "e", "_",
           "r", "e", "q", "u", "e", "s", "t">>, "feature_request" >>,
      << <<"o", "p", "s", "_", "a", "c", "t", "i", "o", "n">>, "ops_action" >>,
      << <<"o", "t", "h", "e", "r">>, "other" >> }
type_map_get(classification) ==
    IF \E item \in type_map : item[1] = classification
    THEN (CHOOSE item \in type_map : item[1] = classification)[2]
    ELSE "other"

\* `except Exception as e: ... return QuestionType.OTHER` (lines 105-107)
Reraise(error) == Raise(error)
classify_except(error) == Return("other")

\* lines 59-107.  The provider picks the client call; both branches read the
\* text of the first choice / content block, and `.strip()` on a content of
\* None raises AttributeError inside the try block.
classify(llm_provider, message, outcome) ==
    /\ Len(handled) < MaxEvents
    /\ outbox' = Append(outbox,
           [kind |-> IF llm_provider = "openai" THEN "chat.completions.create"
                     ELSE "messages.create",
            message |-> message])
    /\ handled' = Append(handled,
           [op |-> "classify", llm_provider |-> llm_provider, outcome |-> outcome,
            result |-> IF outcome.kind = "raised" THEN classify_except(outcome.error)
                       ELSE IF outcome.content = None
                       THEN classify_except("AttributeError")
                       ELSE Return(type_map_get(
                                lower(strip(outcome.content[1].text))))])
    /\ UNCHANGED <<actions, audit_events>>
    /\ UNCHANGED <<conversations, messages, clock, pc, call, ret, started,
                   feedbackVars, handlerVars, configVars, webVars>>

\* ------------------------------------------------------- JiraClient
\* JiraClient.client after __init__: None without jira_url or when JIRA()
\* raised JIRAError, else the JIRA object
JiraClients == {None, Some("JIRA")}

\* what a call on the JIRA object does: the jira library raises JIRAError
\* for an error response, and lets the exceptions of the HTTP session
\* through for a connection that fails
JiraOutcomes == {"ok", "JIRAError", "ConnectionError"}

\* `except JIRAError as e: ... return None` / `return False`
jira_except(error, failed) ==
    IF error = "JIRAError" THEN Return(failed) ELSE Raise(error)

\* lines 59-86.  labels is << >> for None or an empty list (`if labels:`)
create_issue(client, summary, issue_type, labels, outcome) ==
    /\ Len(handled) < MaxEvents
    /\ client = None => outcome = "ok"
    /\ LET issue_dict ==
               [project |-> "TEST", summary |-> summary,
                issuetype |-> IF issue_type = None THEN "Task" ELSE issue_type[1],
                labels |-> labels]
       IN
       /\ outbox' = IF client = None THEN outbox
                    ELSE Append(outbox, [kind |-> "jira", method |-> "create_issue",
                                         fields |-> issue_dict,
                                         ok |-> outcome = "ok"])
       /\ handled' = Append(handled,
              [op |-> "create_issue", client |-> client, outcome |-> outcome,
               result |-> IF client = None THEN Return(None)
                          ELSE IF outcome = "ok" THEN Return(Some("TEST-1"))
                          ELSE jira_except(outcome, None)])
    /\ UNCHANGED <<actions, audit_events>>
    /\ UNCHANGED <<conversations, messages, clock, pc, call, ret, started,
                   feedbackVars, handlerVars, configVars, webVars>>

\* the calls update_issue makes on the JIRA object (lines 109-115)
update_calls(comment, fields) ==
    <<"issue">> \o (IF comment = None THEN << >> ELSE <<"add_comment">>)
                \o (IF fields = None THEN << >> ELSE <<"update">>)

\* lines 104-122.  `failing` is the call that raises `error` ("none": all
\* calls succeed); the calls after it are not made.
update_issue(client, issue_key, comment, fields, failing, error) ==
    /\ Len(handled) < MaxEvents
    /\ LET calls == update_calls(comment, fields)
           at == {k \in DOMAIN calls : calls[k] = failing}
           made == IF at = {} THEN calls
                   ELSE SubSeq(calls, 1, CHOOSE k \in at : TRUE)
       IN
       /\ client = None => failing = "none"
       /\ failing = "none" => error = "JIRAError"
       /\ failing # "none" => at # {}
       /\ outbox' = IF client = None THEN outbox
                    ELSE outbox \o [k \in DOMAIN made |->
                                       [kind |-> "jira", method |-> made[k],
                                        issue_key |-> issue_key,
                                        ok |-> made[k] # failing]]
       /\ handled' = Append(handled,
              [op |-> "update_issue", client |-> client,
               outcome |-> IF failing = "none" THEN "ok" ELSE error,
               result |-> IF client = None THEN Return(FALSE)
                          ELSE IF failing = "none" THEN Return(TRUE)
                          ELSE jira_except(error, FALSE)])
    /\ UNCHANGED <<actions, audit_events>>
    /\ UNCHANGED <<conversations, messages, clock, pc, call, ret, started,
                   feedbackVars, handlerVars, configVars, webVars>>

\* ------------------------------------------------------ EmailClient
\* `except Exception as e: ... return False` (lines 91-93)
OnlySMTPException(error) ==
    IF error = "SMTPException" THEN Return(FALSE) ELSE Raise(error)
send_escalation_except(error) == Return(FALSE)

\* lines 44-93.  failing_at: "build" (an exception while the MIME message
\* is put together, before aiosmtplib.send is awaited), "send" (send raises)
\* or "none".  From is smtp_from_email or smtp_username; the Jira link is
\* added `if jira_key`.
send_escalation(to_email, jira_key, smtp_from_email, failing_at, error) ==
    /\ Len(handled) < MaxEvents
    /\ failing_at = "none" => error = "SMTPException"
    /\ failing_at = "build" => error = "TypeError"
    /\ failing_at = "send" => error \in {"SMTPException", "OSError"}
    /\ outbox' = IF failing_at = "build" THEN outbox
                 ELSE Append(outbox,
                          [kind |-> "aiosmtplib.send", to |-> to_email,
                           from |-> IF smtp_from_email = None THEN "smtp_username"
                                    ELSE smtp_from_email[1],
                           jira_link |-> jira_key # None,
                           ok |-> failing_at = "none"])
    /\ handled' = Append(handled,
           [op |-> "send_escalation", to_email |-> to_email,
            failing_at |-> failing_at,
            outcome |-> IF failing_at = "none" THEN "ok" ELSE error,
            result |-> IF failing_at = "none" THEN Return(TRUE)
                       ELSE send_escalation_except(error)])
    /\ UNCHANGED <<actions, audit_events>>
    /\ UNCHANGED <<conversations, messages, clock, pc, call, ret, started,
                   feedbackVars, handlerVars, configVars, webVars>>

\* -------------------------------------------------- IntegrationSpec
IntegrationNext ==
    \/ \E llm_provider \in {"openai", "anthropic"}, outcome \in LLMOutcomes :
          classify(llm_provider, "the login page returns 500", outcome)
    \/ \E client \in JiraClients, issue_type \in {None, Some("Bug")},
          labels \in {<< >>, <<"support">>}, outcome \in JiraOutcomes :
          create_issue(client, "login fails", issue_type, labels, outcome)
    \/ \E client \in JiraClients, comment \in {None, Some("escalated")},
          fields \in {None, Some("status")},
          failing \in {"none", "issue", "add_comment", "update"},
          error \in {"JIRAError", "ConnectionError"} :
          update_issue(client, "TEST-1", comment, fields, failing, error)
    \/ \E jira_key \in {None, Some("TEST-1")},
          smtp_from_email \in {None, Some("bot@example.com")},
          failing_at \in {"none", "build", "send"},
          error \in {"SMTPException", "OSError", "TypeError"} :
          send_escalation("oncall@example.com", jira_key, smtp_from_email,
                          failing_at, error)

IntegrationSpec == Init /\ [][IntegrationNext]_vars

\* ==================================================================
\* Properties of the external collaborators (checked under IntegrationSpec)
\* ==================================================================
Calls(op) == {i \in DOMAIN handled : handled[i].op = op}

\* C23: classify always returns a QuestionType and never raises: a failing
\* LLM call (or a response without text) gives OTHER, a reply that is not
\* one of the five labels gives OTHER, and a reply that spells a label,
\* whatever its case and surrounding whitespace, gives that label.
C23_ClassifyAlwaysReturnsType ==
    \A i \in Calls("classify") :
        LET outcome == handled[i].outcome
            result == handled[i].result
        IN /\ result.kind = "returned"
           /\ result.value \in QuestionType
           /\ IF outcome.kind = "raised" THEN result.value = "other"
              ELSE IF outcome.content = None THEN result.value = "other"
              ELSE IF outcome.content[1].spells = "none" THEN result.value = "other"
              ELSE result.value = outcome.content[1].spells

\* C23 witness: one call whose LLM request timed out and one whose reply was
\* "bug." have both returned OTHER
C23_Witness ==
    /\ Len(handled) = 2
    /\ handled[1].op = "classify"
    /\ handled[1].outcome = [kind |-> "raised", error |-> "TimeoutError"]
    /\ handled[1].result = Return("other")
    /\ handled[2].op = "classify"
    /\ handled[2].outcome.kind = "response"
    /\ handled[2].outcome.content # None
    /\ handled[2].outcome.content[1].text = <<"b", "u", "g", ".">>
    /\ handled[2].result = Return("other")

\* C24: the ticketing wrapper never raises: create_issue returns the issue
\* key on success and None when the client is not configured or the call
\* fails; update_issue returns True on success and False when the client is
\* not configured or a call fails.
C24_JiraFailureIsAValue ==
    /\ \A i \in Calls("create_issue") :
          /\ handled[i].result.kind = "returned"
          /\ handled[i].result.value =
                 IF handled[i].client # None /\ handled[i].outcome = "ok"
                 THEN Some("TEST-1") ELSE None
    /\ \A i \in Calls("update_issue") :
          /\ handled[i].result.kind = "returned"
          /\ handled[i].result.value =
                 (handled[i].client # None /\ handled[i].outcome = "ok")

\* C25: send_escalation never raises, and returns True exactly when the
\* message was built and aiosmtplib.send returned without an error; every
\* failure while building or sending gives False.
C25_EmailFailureIsFalse ==
    /\ \A i \in Calls("send_escalation") :
          /\ handled[i].result.kind = "returned"
          /\ handled[i].result.value = (handled[i].failing_at = "none")
    /\ Cardinality({j \in DOMAIN outbox :
                       outbox[j].kind = "aiosmtplib.send" /\ outbox[j].ok})
          = Cardinality({i \in Calls("send_escalation") :
                            handled[i].result = Return(TRUE)})

\* C25 witness: a send that failed with OSError returned False, the next
\* one went out and returned True
C25_Witness ==
    /\ Len(handled) = 2
    /\ handled[1].op = "send_escalation"
    /\ handled[1].failing_at = "send" /\ handled[1].outcome = "OSError"
    /\ handled[1].result = Return(FALSE)
    /\ handled[2].op = "send_escalation"
    /\ handled[2].result = Return(TRUE)
    /\ Len(outbox) = 2 /\ ~outbox[1].ok /\ outbox[2].ok

\* ==================================================================
\* Dashboard WebSocket broadcast (src/web/app.py): clients connect and
\* disconnect while broadcasts run
\* ==================================================================
BroadcastNext ==
    \/ \E websocket \in WebSockets :
          /\ connect(websocket)
          /\ UNCHANGED <<conversations, messages, clock, pc, call, ret, started,
                         actionVars, feedbackVars, handlerVars, configVars>>
    \/ \E websocket \in WebSockets :
          /\ disconnect(websocket)
          /\ UNCHANGED <<conversations, messages, clock, pc, call, ret, started,
                         actionVars, feedbackVars, handlerVars, configVars>>
    \/ /\ broadcast_call
       /\ UNCHANGED <<conversations, messages, clock, pc, call, ret, started,
                      actionVars, feedbackVars, handlerVars, configVars>>
    \/ /\ broadcast_for
       /\ UNCHANGED <<conversations, messages, clock, pc, call, ret, started,
                      actionVars, feedbackVars, handlerVars, configVars>>
    \/ \E outcome \in SendOutcomes :
          /\ broadcast_send_json(outcome)
          /\ UNCHANGED <<conversations, messages, clock, pc, call, ret, started,
                         actionVars, feedbackVars, handlerVars, configVars>>

BroadcastSpec == Init /\ [][BroadcastNext]_vars

\* the clients that were connected when the broadcast began and stayed so
StayedConnected == broadcast_log.at_start \ broadcast_log.disconnected

\* C38: when broadcast has returned, send_json was awaited for every client
\* that was connected for the whole broadcast (and the message reached it
\* unless its own send failed), whatever happened to the other clients; a
\* failed send never raises out of broadcast; disconnect removes exactly
\* the given client.
C38_BroadcastReachesEveryClient ==
    /\ broadcast.pc # "raised"
    /\ broadcast.pc = "returned"
          => StayedConnected \subseteq broadcast_log.sent \cup broadcast_log.failed
    /\ Elements(active_connections) = {ws \in WebSockets : websockets[ws] = "open"}

====
